---- MODULE Spec2Model ----
(***************************************************************************)
(* Gamification progression engine of the gamified Python learner:         *)
(* XP / level ledger (apps/authentication/models.py), badge engine,        *)
(* streak tracker, challenge manager (apps/gamification) and the view      *)
(* handlers that drive them (apps/learning/views.py, apps/coding/views.py).*)
(*                                                                         *)
(* The relational store is the record `db` (one field per table).  Model   *)
(* instances held in memory by a request are records separate from the     *)
(* rows they were loaded from: a save() copies the instance over the row.  *)
(***************************************************************************)
EXTENDS Integers, Sequences, FiniteSets, TLC

\* ------------------------------------------------------------------ bounds
NUsers == 2
NLessons == 2
NExercises == 1
MaxXP == 3000
MaxDay == 3
MaxChallengeDay == 1
MaxClock == 3
ScaleExp == 10
FirstGenDay == 5
MaxGenDay == 7
MaxChallengeRows == 10
SecondsPerDay == 2
TicksPerSecond == 2
MaxRateDay == 1
MaxMessages == 2
NearCeiling == 3

Users == 1 .. NUsers
Lessons == 1 .. NLessons
Exercises == 1 .. NExercises
\* every lesson belongs to the one module; every exercise to lesson 1
Modules == {1}
LessonModule(l) == 1
ExerciseLesson(e) == 1
\* Lesson.xp_reward (default) and Exercise.xp_reward (generate_exercises default)
LESSON_XP_REWARD == 100
EXERCISE_XP_REWARD == 50
\* the reward generate_curriculum gives its longest lessons
LONG_LESSON_XP_REWARD == 150
\* lesson 1 keeps the default reward, the later lessons are long ones
LessonXpReward(l) == IF l = 1 THEN LESSON_XP_REWARD ELSE LONG_LESSON_XP_REWARD

\* --------------------------------------------------------------- constants
\* settings.XP_FOR_LEVEL_UP_BASE and settings.XP_MULTIPLIER_PER_LEVEL (1.5 = 3/2)
XP_FOR_LEVEL_UP_BASE == 1000
XP_MULTIPLIER_NUM == 3
XP_MULTIPLIER_DEN == 2

VARIABLES
    db,      \* the stored rows, one field per table
    today,   \* date.today(), as a day number
    clock,   \* timezone.now(), as a logical instant
    last,    \* the last operation called, what it was given and what it returned
    hist,    \* history: the largest current_streak each record has had, the day
             \* of the last check_broken_streaks run, the awards made per challenge
    req      \* the requests being served: per worker, where its handler
             \* stands and the model instances it holds in memory

vars == <<db, today, clock, last, hist, req>>

\* the operations on a user read and write only the rows of that user: one
\* user issues the requests, the rows of the others stay as migrated
Requesters == {1}

\* the workers that serve requests
Slots == {"a", "b"}
Idle == [pc |-> "idle"]
NoReq == [s \in Slots |-> Idle]

\* ------------------------------------------------------- progression ledger
RECURSIVE Pow(_, _)
Pow(b, e) == IF e = 0 THEN 1 ELSE b * Pow(b, e - 1)

\* base_xp * (multiplier ** i), times 2^ScaleExp so that it stays an integer
\* (the float product is exact for every i the model reaches)
LevelTerm(i) ==
    XP_FOR_LEVEL_UP_BASE * Pow(XP_MULTIPLIER_NUM, i)
        * Pow(XP_MULTIPLIER_DEN, ScaleExp - i)

Scaled(xp) == xp * Pow(XP_MULTIPLIER_DEN, ScaleExp)

\* for i in range(level): cumulative_xp_required += base_xp * (multiplier ** i)
RECURSIVE CumulativeRequired(_)
CumulativeRequired(level) ==
    IF level <= 0 THEN 0
    ELSE CumulativeRequired(level - 1) + LevelTerm(level - 1)

\* while self.xp >= cumulative_xp_required: level += 1; cumulative += term
RECURSIVE LevelUpLoop(_, _, _)
LevelUpLoop(xp, level, cum) ==
    IF Scaled(xp) >= cum
    THEN LevelUpLoop(xp, level + 1, cum + LevelTerm(level))
    ELSE level

RECURSIVE LevelUpLoopStrict(_, _, _)
LevelUpLoopStrict(xp, level, cum) ==
    IF Scaled(xp) > cum
    THEN LevelUpLoopStrict(xp, level + 1, cum + LevelTerm(level))
    ELSE level

check_level_up_strict(u) ==
    [u EXCEPT !.level = LevelUpLoopStrict(u.xp, u.level, CumulativeRequired(u.level))]

\* User.check_level_up on the in-memory instance u
check_level_up(u) ==
    [u EXCEPT !.level = LevelUpLoop(u.xp, u.level, CumulativeRequired(u.level))]

\* User.add_xp up to (not including) self.save()
add_xp_mem(u, amount) == check_level_up([u EXCEPT !.xp = u.xp + amount])

\* a User instance as the ORM loads it from its row
LoadUser(d, uid) ==
    [id |-> uid, xp |-> d.users[uid].xp, level |-> d.users[uid].level,
     total_lessons_completed |-> d.users[uid].total_lessons_completed,
     total_exercises_completed |-> d.users[uid].total_exercises_completed]

\* User.save(): every field of the instance overwrites the row
SaveUser(d, u) ==
    [d EXCEPT !.users[u.id] =
        [xp |-> u.xp, level |-> u.level,
         total_lessons_completed |-> u.total_lessons_completed,
         total_exercises_completed |-> u.total_exercises_completed]]

\* ------------------------------------------------------------------ tables
Range(f) == {f[i] : i \in DOMAIN f}

RECURSIVE SeqSum(_)
SeqSum(q) == IF q = <<>> THEN 0 ELSE Head(q) + SeqSum(Tail(q))

\* a DailyStreak row that does not exist (DailyStreak.DoesNotExist)
NoStreak ==
    [exists |-> FALSE, current_streak |-> 0, longest_streak |-> 0,
     last_activity_date |-> 0]

\* UserSubmission rows of one (user, exercise) in submitted_at order, kept as
\* what the queries read: is there one, is the first correct, is any correct
NoSubmission == [any |-> FALSE, first_correct |-> FALSE, solved |-> FALSE]

\* the store after migrations, with the badge catalog `catalog` seeded:
\* badges is the Badge table in Meta.ordering; user_badges and
\* user_challenges hold, per natural key (the pair their unique_together
\* names), the rows of that key in insertion order; progress is the
\* UserProgress status per (user, lesson)
\* friendships is the Friendship table in created_at order
EmptyDb(catalog) ==
    [ users           |-> [u \in Users |->
                            [xp |-> 0, level |-> 1,
                             total_lessons_completed |-> 0,
                             total_exercises_completed |-> 0]],
      badges          |-> catalog,
      user_badges     |-> [u \in Users |-> [b \in 1 .. Len(catalog) |-> <<>>]],
      streaks         |-> [u \in Users |-> NoStreak],
      progress        |-> [u \in Users |-> [l \in Lessons |-> "none"]],
      submissions     |-> [u \in Users |-> [e \in Exercises |-> NoSubmission]],
      friendships     |-> <<>>,
      challenges      |-> <<>>,
      user_challenges |-> <<>> ]

NoCall == [op |-> "none"]

NoHist ==
    [ max_current |-> [u \in Users |-> 0],
      broken_run_day |-> -1,
      awards |-> <<>> ]

\* ------------------------------------------------------------ badge engine
\* UserSubmission.objects.filter(user, is_correct=True).values('exercise').distinct().count()
ExercisesSolvedCount(d, uid) ==
    Cardinality({e \in Exercises : d.submissions[uid][e].solved})

\* UserProgress.objects.filter(user, status='completed').count()
LessonsCompletedCount(d, uid) ==
    Cardinality({l \in Lessons : d.progress[uid][l] = "completed"})

\* Friendship.objects.filter(user=user, status='accepted').count()
FriendCount(d, uid) ==
    Cardinality({i \in DOMAIN d.friendships :
                    /\ d.friendships[i].user = uid
                    /\ d.friendships[i].status = "accepted"})

\* BadgeEngine._check_criteria(user, criteria); criteria.n is the one
\* parameter of the kind (count, xp, level, days, exercise_id, module_id)
check_criteria(d, u, criteria) ==
    CASE criteria.type = "exercises_solved" ->
            ExercisesSolvedCount(d, u.id) >= criteria.n
      [] criteria.type = "lessons_completed" ->
            LessonsCompletedCount(d, u.id) >= criteria.n
      [] criteria.type = "xp_earned" -> u.xp >= criteria.n
      [] criteria.type = "level_reached" -> u.level >= criteria.n
      [] criteria.type = "streak_days" ->
            /\ d.streaks[u.id].exists
            /\ d.streaks[u.id].current_streak >= criteria.n
      [] criteria.type = "friends_count" -> FriendCount(d, u.id) >= criteria.n
      [] criteria.type = "perfect_exercise" ->
            /\ criteria.n \in Exercises
            /\ d.submissions[u.id][criteria.n].any
            /\ d.submissions[u.id][criteria.n].first_correct
      [] criteria.type = "module_master" ->
            /\ criteria.n \in Modules
            /\ LET total == Cardinality({l \in Lessons : LessonModule(l) = criteria.n})
                   done == Cardinality({l \in Lessons :
                                /\ LessonModule(l) = criteria.n
                                /\ d.progress[u.id][l] = "completed"})
               IN  total > 0 /\ total = done
      [] OTHER -> FALSE

\* rows of UserBadge for one (user, badge)
UserBadgeRows(d, uid, b) == d.user_badges[uid][b]

InsertUserBadgeNoConstraint(d, row) ==
    [ok |-> TRUE,
     db |-> [d EXCEPT !.user_badges[row.user][row.badge] =
                Append(@, [progress |-> row.progress])]]

\* UserBadge.objects.create(...) under unique_together = ['user', 'badge']:
\* the insert fails (IntegrityError) when the pair has a row
InsertUserBadge(d, row) ==
    IF UserBadgeRows(d, row.user, row.badge) # <<>>
    THEN [ok |-> FALSE, db |-> d]
    ELSE [ok |-> TRUE,
          db |-> [d EXCEPT !.user_badges[row.user][row.badge] =
                     Append(@, [progress |-> row.progress])]]

AllBadges(d) == [i \in 1 .. Len(d.badges) |-> i]

\* Badge.objects.filter(is_active=True), in Meta.ordering
ActiveBadges(d) ==
    SelectSeq([i \in 1 .. Len(d.badges) |-> i], LAMBDA i : d.badges[i].is_active)

\* UserBadge.objects.filter(user=user).values_list('badge_id', flat=True)
EarnedBadgeIds(d, uid) ==
    {b \in DOMAIN d.badges : UserBadgeRows(d, uid, b) # <<>>}

BadgePassStart(d, u) == [db |-> d, user |-> u, ret |-> <<>>, raised |-> FALSE]

\* one iteration of the loop of check_and_award_badges, for badge b;
\* st.raised: an exception left the function
BadgeStep(st, earned, b) ==
    LET badge == st.db.badges[b] IN
    IF st.raised \/ b \in earned
         \/ ~check_criteria(st.db, st.user, badge.criteria)
    THEN st
    ELSE LET ins == InsertUserBadge(st.db,
                        [user |-> st.user.id, badge |-> b, progress |-> 100])
         IN  IF ~ins.ok
             THEN [st EXCEPT !.raised = TRUE]
             ELSE LET u2 == IF badge.xp_reward > 0
                            THEN add_xp_mem(st.user, badge.xp_reward)
                            ELSE st.user
                      d2 == IF badge.xp_reward > 0
                            THEN SaveUser(ins.db, u2)
                            ELSE ins.db
                  IN  [db |-> d2, user |-> u2,
                       ret |-> Append(st.ret, b), raised |-> FALSE]

RECURSIVE BadgeLoop(_, _, _)
BadgeLoop(st, earned, todo) ==
    IF todo = <<>> THEN st
    ELSE BadgeLoop(BadgeStep(st, earned, Head(todo)), earned, Tail(todo))

\* BadgeEngine.check_and_award_badges(user): the catalog and the earned ids
\* are read once, then every active badge is visited once, in order
check_and_award_badges(d, u) ==
    BadgeLoop(BadgePassStart(d, u), EarnedBadgeIds(d, u.id), ActiveBadges(d))

\* sum of the rewards of the badges listed in ret
RewardSum(d, ret) == SeqSum([i \in 1 .. Len(ret) |-> d.badges[ret[i]].xp_reward])

\* ----------------------------------------------------------- streak tracker
update_streak_keep_longest(d, u, day) ==
    LET s == d.streaks[u.id] IN
    IF ~s.exists
    THEN [db |-> [d EXCEPT !.streaks[u.id] =
                    [exists |-> TRUE, current_streak |-> 1,
                     longest_streak |-> 1, last_activity_date |-> day]],
          user |-> u, badges |-> <<>>, raised |-> FALSE,
          res |-> [current_streak |-> 1, longest_streak |-> 1,
                   streak_continued |-> TRUE, streak_broken |-> FALSE]]
    ELSE IF s.last_activity_date = day
    THEN [db |-> d, user |-> u, badges |-> <<>>, raised |-> FALSE,
          res |-> [current_streak |-> s.current_streak,
                   longest_streak |-> s.longest_streak,
                   streak_continued |-> FALSE, streak_broken |-> FALSE]]
    ELSE LET cur == IF s.last_activity_date = day - 1
                    THEN s.current_streak + 1 ELSE 1
             s2 == [s EXCEPT !.current_streak = cur, !.last_activity_date = day]
         IN  [db |-> [d EXCEPT !.streaks[u.id] = s2], user |-> u,
              badges |-> <<>>, raised |-> FALSE,
              res |-> [current_streak |-> cur, longest_streak |-> s.longest_streak,
                       streak_continued |-> s.last_activity_date = day - 1,
                       streak_broken |-> s.last_activity_date < day - 1]]

\* StreakManager.update_streak(user) on day `day`; badges: what the badge
\* check it ends with awarded
update_streak(d, u, day) ==
    LET s == d.streaks[u.id] IN
    IF ~s.exists
    THEN [db |-> [d EXCEPT !.streaks[u.id] =
                    [exists |-> TRUE, current_streak |-> 1,
                     longest_streak |-> 1, last_activity_date |-> day]],
          user |-> u, badges |-> <<>>, raised |-> FALSE,
          res |-> [current_streak |-> 1, longest_streak |-> 1,
                   streak_continued |-> TRUE, streak_broken |-> FALSE]]
    ELSE IF s.last_activity_date = day
    THEN [db |-> d, user |-> u, badges |-> <<>>, raised |-> FALSE,
          res |-> [current_streak |-> s.current_streak,
                   longest_streak |-> s.longest_streak,
                   streak_continued |-> FALSE, streak_broken |-> FALSE]]
    ELSE LET yesterday == day - 1
             continued == s.last_activity_date = yesterday
             broken == ~continued /\ s.last_activity_date < yesterday
             cur == IF continued THEN s.current_streak + 1
                    ELSE IF broken THEN 1 ELSE s.current_streak
             lng == IF cur > s.longest_streak THEN cur ELSE s.longest_streak
             s2 == [exists |-> TRUE, current_streak |-> cur,
                    longest_streak |-> lng, last_activity_date |-> day]
             chk == check_and_award_badges([d EXCEPT !.streaks[u.id] = s2], u)
         IN  [db |-> chk.db, user |-> chk.user, badges |-> chk.ret,
              raised |-> chk.raised,
              res |-> [current_streak |-> cur, longest_streak |-> lng,
                       streak_continued |-> continued, streak_broken |-> broken]]

BrokenStreaksAnyCurrent(d, day) ==
    {u \in Users : /\ d.streaks[u].exists
                   /\ d.streaks[u].last_activity_date < day - 1}

\* the rows check_broken_streaks selects:
\* last_activity_date__lt=yesterday, current_streak__gt=0
BrokenStreaks(d, day) ==
    {u \in Users : /\ d.streaks[u].exists
                   /\ d.streaks[u].last_activity_date < day - 1
                   /\ d.streaks[u].current_streak > 0}

check_broken_streaks_clear_longest(d, day) ==
    LET broken == BrokenStreaks(d, day) IN
    [ret |-> Cardinality(broken),
     db  |-> [d EXCEPT !.streaks = [u \in Users |->
                IF u \in broken
                THEN [@[u] EXCEPT !.current_streak = 0, !.longest_streak = 0]
                ELSE @[u]]]]

\* StreakManager.check_broken_streaks() on day `day`
check_broken_streaks(d, day) ==
    LET broken == BrokenStreaks(d, day) IN
    [ret |-> Cardinality(broken),
     db  |-> [d EXCEPT !.streaks = [u \in Users |->
                IF u \in broken THEN [@[u] EXCEPT !.current_streak = 0]
                ELSE @[u]]]]

\* -------------------------------------------------------- challenge manager
Template(title, metric, target, reward) ==
    [title |-> title, target_metric |-> metric, target_value |-> target,
     xp_reward |-> reward]

\* templates of reset_and_generate_daily_challenges
DailyTemplates ==
    << Template("Daily Exercise Sprint", "exercises_solved", 3, 150),
       Template("Quick Learner", "lessons_completed", 1, 100),
       Template("XP Hunter", "xp_earned", 200, 100),
       Template("Code Warrior", "code_submissions", 5, 120) >>

\* templates of reset_and_generate_weekly_challenges
WeeklyTemplates ==
    << Template("Weekly Marathon", "exercises_solved", 15, 500),
       Template("Knowledge Seeker", "lessons_completed", 5, 400),
       Template("XP Master", "xp_earned", 1000, 300) >>

DAILY_SAMPLE == 3
WEEKLY_SAMPLE == 2

Min(a, b) == IF a <= b THEN a ELSE b

\* random.sample(templates, min(k, len(templates))): the index sets it can draw
Samples(templates, k) ==
    {S \in SUBSET (1 .. Len(templates)) :
        Cardinality(S) = Min(k, Len(templates))}

\* the sampled templates, in template order
RECURSIVE Selected(_, _, _)
Selected(templates, S, i) ==
    IF i > Len(templates) THEN <<>>
    ELSE (IF i \in S THEN <<templates[i]>> ELSE <<>>)
            \o Selected(templates, S, i + 1)

\* Challenge.objects.create(...) for one template
NewChallenge(t, type, start, end) ==
    [title |-> t.title, challenge_type |-> type, start_date |-> start,
     end_date |-> end, target_metric |-> t.target_metric,
     target_value |-> t.target_value, xp_reward |-> t.xp_reward,
     is_active |-> TRUE]

\* the deactivation with end_date__lte in place of end_date__lt
DeactivateExpiredToday(chs, type, day) ==
    [i \in DOMAIN chs |->
        IF chs[i].challenge_type = type /\ chs[i].end_date <= day /\ chs[i].is_active
        THEN [chs[i] EXCEPT !.is_active = FALSE]
        ELSE chs[i]]

\* expired.update(is_active=False) for the challenges of `type` ended before day
DeactivateExpired(chs, type, day) ==
    [i \in DOMAIN chs |->
        IF chs[i].challenge_type = type /\ chs[i].end_date < day /\ chs[i].is_active
        THEN [chs[i] EXCEPT !.is_active = FALSE]
        ELSE chs[i]]

\* the shared body of the two generators: deactivate, return [] when the
\* period has active challenges, else create one challenge per sampled template
generate_challenges(d, type, start, end, day, sel) ==
    LET chs == DeactivateExpired(d.challenges, type, day)
        existing == \E i \in DOMAIN chs :
                        /\ chs[i].challenge_type = type
                        /\ chs[i].start_date = start
                        /\ chs[i].is_active
        made == [i \in 1 .. Len(sel) |-> NewChallenge(sel[i], type, start, end)]
    IN  IF existing
        THEN [db |-> [d EXCEPT !.challenges = chs], ret |-> <<>>]
        ELSE [db |-> [d EXCEPT !.challenges = chs \o made],
              ret |-> [i \in 1 .. Len(sel) |-> Len(chs) + i]]

\* ChallengeManager.reset_and_generate_daily_challenges(), S the sample drawn
reset_and_generate_daily_challenges(d, day, S) ==
    generate_challenges(d, "daily", day, day, day, Selected(DailyTemplates, S, 1))

\* date.weekday(): day 0 is a Monday
Weekday(day) == day % 7

\* ChallengeManager.reset_and_generate_weekly_challenges(), S the sample drawn
reset_and_generate_weekly_challenges(d, day, S) ==
    LET start_of_week == day - Weekday(day) IN
    generate_challenges(d, "weekly", start_of_week, start_of_week + 6, day,
                        Selected(WeeklyTemplates, S, 1))

check_completion_strict(row, challenge, now) ==
    IF ~row.completed /\ row.progress > challenge.target_value
    THEN [row |-> [row EXCEPT !.completed = TRUE, !.completed_at = now],
          ret |-> TRUE]
    ELSE [row |-> row, ret |-> FALSE]

\* UserChallenge.check_completion() at instant now
check_completion(row, challenge, now) ==
    IF ~row.completed /\ row.progress >= challenge.target_value
    THEN [row |-> [row EXCEPT !.completed = TRUE, !.completed_at = now],
          ret |-> TRUE]
    ELSE [row |-> row, ret |-> FALSE]

\* the UserChallenge rows of one (user, challenge)
UserChallengeRows(d, uid, c) ==
    IF <<uid, c>> \in DOMAIN d.user_challenges
    THEN d.user_challenges[<<uid, c>>] ELSE <<>>

\* UserChallenge.objects.get_or_create(user, challenge, defaults={'progress': 0})
NewUserChallenge == [progress |-> 0, completed |-> FALSE, completed_at |-> -1]

GetOrCreateUserChallenge(d, uid, c) ==
    IF UserChallengeRows(d, uid, c) # <<>>
    THEN [db |-> d, created |-> FALSE]
    ELSE [db |-> [d EXCEPT !.user_challenges =
                    @ @@ (<<uid, c>> :> <<NewUserChallenge>>)],
          created |-> TRUE]

\* Challenge.objects.filter(target_metric, is_active, start_date__lte=today,
\* end_date__gte=today)
ActiveChallenges(d, metric, day) ==
    SelectSeq([i \in 1 .. Len(d.challenges) |-> i],
              LAMBDA i : /\ d.challenges[i].target_metric = metric
                         /\ d.challenges[i].is_active
                         /\ d.challenges[i].start_date <= day
                         /\ d.challenges[i].end_date >= day)

ChallengeStepAlways(st, c, increment, now) ==
    LET g   == GetOrCreateUserChallenge(st.db, st.user.id, c)
        key == <<st.user.id, c>>
        row == [g.db.user_challenges[key][1] EXCEPT !.progress = @ + increment]
        chk == check_completion(row, g.db.challenges[c], now)
        d2  == [g.db EXCEPT !.user_challenges[key][1] = chk.row]
    IN  IF chk.ret
        THEN LET u2 == add_xp_mem(st.user, g.db.challenges[c].xp_reward)
             IN  [db |-> SaveUser(d2, u2), user |-> u2, ret |-> Append(st.ret, c)]
        ELSE [st EXCEPT !.db = d2]

\* one iteration of the loop of update_challenge_progress, for challenge c
ChallengeStep(st, c, increment, now) ==
    LET g   == GetOrCreateUserChallenge(st.db, st.user.id, c)
        key == <<st.user.id, c>>
    IN
    IF g.db.user_challenges[key][1].completed
    THEN [st EXCEPT !.db = g.db]
    ELSE LET row == [g.db.user_challenges[key][1] EXCEPT !.progress = @ + increment]
             chk == check_completion(row, g.db.challenges[c], now)
             d2  == [g.db EXCEPT !.user_challenges[key][1] = chk.row]
         IN  IF chk.ret
             THEN LET u2 == add_xp_mem(st.user, g.db.challenges[c].xp_reward)
                  IN  [db |-> SaveUser(d2, u2), user |-> u2,
                       ret |-> Append(st.ret, c)]
             ELSE [st EXCEPT !.db = d2]

RECURSIVE ChallengeLoop(_, _, _, _)
ChallengeLoop(st, todo, increment, now) ==
    IF todo = <<>> THEN st
    ELSE ChallengeLoop(ChallengeStep(st, Head(todo), increment, now),
                       Tail(todo), increment, now)

\* ChallengeManager.update_challenge_progress(user, metric_type, increment)
update_challenge_progress(d, u, metric, increment, day, now) ==
    ChallengeLoop([db |-> d, user |-> u, ret |-> <<>>],
                  ActiveChallenges(d, metric, day), increment, now)

\* --------------------------------------------------------- ledger alone
XpAmounts == {0, 250, 999, 1001, 1500}

InitLevel ==
    /\ db = EmptyDb(<<>>)
    /\ hist = NoHist
    /\ today = 0
    /\ clock = 0
    /\ last = NoCall
    /\ req = NoReq

\* user = User.objects.get(id=uid); user.add_xp(amount)
AddXp(uid, amount) ==
    /\ db.users[uid].xp + amount <= MaxXP
    /\ LET u == add_xp_mem(LoadUser(db, uid), amount)
       IN  /\ db' = SaveUser(db, u)
           /\ last' = [op |-> "add_xp", user |-> uid, amount |-> amount]
    /\ UNCHANGED <<today, clock, hist, req>>

NextLevel == \E uid \in Requesters, amount \in XpAmounts : AddXp(uid, amount)

SpecLevel == InitLevel /\ [][NextLevel]_vars

\* cumulative_threshold(L): cumulative_threshold(1) = 0 and
\* cumulative_threshold(L+1) = sum for i = 0..L-1 of base * multiplier^i
RECURSIVE CumulativeThreshold(_)
CumulativeThreshold(L) ==
    IF L <= 1 THEN 0
    ELSE CumulativeThreshold(L - 1)
           + XP_FOR_LEVEL_UP_BASE * Pow(XP_MULTIPLIER_NUM, L - 2)
               * Pow(XP_MULTIPLIER_DEN, ScaleExp - (L - 2))

LevelCandidates == 1 .. 8

\* C1: after any sequence of add_xp calls with non-negative amounts from
\* xp = 0, level = 1, the stored level is the unique L with
\* cumulative_threshold(L) <= xp < cumulative_threshold(L+1); reaching a
\* threshold exactly levels up.
C1_LevelIsBracket ==
    \A uid \in Users :
        \A L \in LevelCandidates :
            (L = db.users[uid].level)
              <=> ( /\ CumulativeThreshold(L) <= Scaled(db.users[uid].xp)
                    /\ Scaled(db.users[uid].xp) < CumulativeThreshold(L + 1) )

\* a user whose add_xp landed exactly on the level-3 threshold (1000 + 1500)
C1_Witness ==
    \E uid \in Users :
        /\ last.op = "add_xp" /\ last.user = uid /\ last.amount > 0
        /\ db.users[uid].xp = 2500
        /\ db.users[uid].level = 3


\* ------------------------------------------------------------ badge catalogs
\* the default badges of create_default_badges, with the targets brought
\* down to what the bounded runs reach, an inactive badge and a badge whose
\* criteria type the engine does not know
Badge(name, badge_type, type, n, reward, active) ==
    [name |-> name, badge_type |-> badge_type,
     criteria |-> [type |-> type, n |-> n],
     xp_reward |-> reward, is_active |-> active]

StreakBadge == Badge("Perfect Week", "achievement", "streak_days", 2, 200, TRUE)

\* the catalog of the handler runs, in Meta.ordering (badge_type, name):
\* default badges with their rewards, "Quick Learner" deactivated, and
\* "Speed Runner", whose criteria type _check_criteria has no branch for
Catalog ==
    << Badge("First Steps", "achievement", "exercises_solved", 1, 50, TRUE),
       Badge("Knowledge Seeker", "achievement", "lessons_completed", 2, 100, TRUE),
       Badge("Quick Learner", "achievement", "exercises_solved", 1, 100, FALSE),
       Badge("Speed Runner", "achievement", "time_spent", 1, 75, TRUE),
       Badge("Rising Star", "milestone", "level_reached", 2, 250, TRUE),
       Badge("Unstoppable", "milestone", "streak_days", 2, 1000, TRUE) >>

\* ------------------------------------------------------ streak tracker alone
Max(a, b) == IF a >= b THEN a ELSE b

\* the history kept beside a new store d2
NoteStreaks(h, d2) ==
    [h EXCEPT !.max_current =
        [u \in Users |-> Max(h.max_current[u], d2.streaks[u].current_streak)]]

InitStreak ==
    /\ db = EmptyDb(<<StreakBadge>>)
    /\ today = 0
    /\ clock = 0
    /\ last = NoCall
    /\ hist = NoHist
    /\ req = NoReq

\* user = User.objects.get(id=uid); StreakManager.update_streak(user)
Touch(uid) ==
    LET r == update_streak(db, LoadUser(db, uid), today) IN
    /\ db' = r.db
    /\ last' = [op |-> "update_streak", user |-> uid, day |-> today,
                pre |-> db.streaks[uid], res |-> r.res]
    /\ hist' = NoteStreaks(hist, r.db)
    /\ UNCHANGED <<today, clock, req>>

\* the check_streaks command: StreakManager.check_broken_streaks()
CheckBroken ==
    LET r == check_broken_streaks(db, today) IN
    /\ db' = r.db
    /\ last' = [op |-> "check_broken_streaks", day |-> today,
                pre |-> db.streaks, ret |-> r.ret,
                prev_run_day |-> hist.broken_run_day]
    /\ hist' = [NoteStreaks(hist, r.db) EXCEPT !.broken_run_day = today]
    /\ UNCHANGED <<today, clock, req>>

\* midnight
AdvanceDay ==
    /\ today < MaxDay
    /\ today' = today + 1
    /\ last' = [op |-> "advance_day"]
    /\ UNCHANGED <<db, clock, hist, req>>

NextStreak ==
    \/ \E uid \in Users : Touch(uid)
    \/ CheckBroken
    \/ AdvanceDay

SpecStreak == InitStreak /\ [][NextStreak]_vars

\* C6: touch on an existing record with current = N: last activity yesterday
\* gives current = N+1 and longest = max(longest, N+1); last activity before
\* yesterday gives current = 1, longest unchanged unless it was below 1; last
\* activity today changes nothing and reports neither continued nor broken;
\* in the first two cases last_activity becomes today.
C6_TouchExisting ==
    (last.op = "update_streak" /\ last.pre.exists) =>
        LET pre  == last.pre
            post == db.streaks[last.user]
            N    == pre.current_streak
        IN  /\ (pre.last_activity_date = last.day - 1) =>
                  /\ post.current_streak = N + 1
                  /\ post.longest_streak = Max(pre.longest_streak, N + 1)
                  /\ post.last_activity_date = last.day
                  /\ last.res.streak_continued /\ ~last.res.streak_broken
            /\ (pre.last_activity_date < last.day - 1) =>
                  /\ post.current_streak = 1
                  /\ post.longest_streak = Max(pre.longest_streak, 1)
                  /\ post.last_activity_date = last.day
                  /\ last.res.streak_broken /\ ~last.res.streak_continued
            /\ (pre.last_activity_date = last.day) =>
                  /\ post = pre
                  /\ ~last.res.streak_continued /\ ~last.res.streak_broken
            /\ last.res.current_streak = post.current_streak
            /\ last.res.longest_streak = post.longest_streak

\* a streak of 2 that was left for a day and more, touched again: reset to 1
C6_Witness ==
    /\ last.op = "update_streak" /\ last.pre.exists
    /\ last.pre.current_streak = 2
    /\ last.pre.last_activity_date < last.day - 1
    /\ db.streaks[last.user].current_streak = 1
    /\ db.streaks[last.user].longest_streak = 2

\* C7: every streak record has longest_streak >= current_streak >= 0, and
\* longest_streak is the largest value current_streak has ever had.
C7_LongestIsMax ==
    \A u \in Users :
        db.streaks[u].exists =>
            /\ db.streaks[u].current_streak >= 0
            /\ db.streaks[u].longest_streak >= db.streaks[u].current_streak
            /\ db.streaks[u].longest_streak = hist.max_current[u]

\* a record that reached 2, was reset by check_broken_streaks and keeps longest
C7_Witness ==
    \E u \in Users :
        /\ db.streaks[u].exists
        /\ db.streaks[u].current_streak = 0
        /\ db.streaks[u].longest_streak = 2
        /\ hist.max_current[u] = 2

\* C8: check_broken_streaks resets current_streak to 0 for exactly the records
\* with last_activity before yesterday and current_streak > 0, leaves every
\* other field and record alone, returns how many it reset, and a second run
\* on the same day returns 0 and changes nothing.
C8_CheckBroken ==
    (last.op = "check_broken_streaks") =>
        LET hit == {u \in Users : /\ last.pre[u].exists
                                  /\ last.pre[u].last_activity_date < last.day - 1
                                  /\ last.pre[u].current_streak > 0}
        IN  /\ \A u \in Users :
                  db.streaks[u] = IF u \in hit
                                  THEN [last.pre[u] EXCEPT !.current_streak = 0]
                                  ELSE last.pre[u]
            /\ last.ret = Cardinality(hit)
            /\ (last.prev_run_day = last.day) =>
                  (last.ret = 0 /\ db.streaks = last.pre)

\* a second run on a day whose first run had reset a record
C8_Witness ==
    /\ last.op = "check_broken_streaks"
    /\ last.prev_run_day = last.day
    /\ \E u \in Users : /\ db.streaks[u].exists
                        /\ db.streaks[u].current_streak = 0
                        /\ db.streaks[u].last_activity_date < last.day - 1
    /\ \E u \in Users : /\ db.streaks[u].exists
                        /\ db.streaks[u].current_streak > 0


\* ------------------------------------------------- challenge manager alone
\* the metrics the handlers pass: 'lessons_completed' (mark_lesson_complete),
\* 'exercises_solved' (submit_code_view)
Metrics == {"exercises_solved", "lessons_completed"}
Increments == {1, 2}

InitChallenge ==
    /\ db = EmptyDb(<<>>)
    /\ today = 0
    /\ clock = 0
    /\ last = NoCall
    /\ hist = NoHist
    /\ req = NoReq

\* the generate_challenges command (scheduler job), daily part
GenerateDaily ==
    \E S \in Samples(DailyTemplates, DAILY_SAMPLE) :
        LET r == reset_and_generate_daily_challenges(db, today, S) IN
        /\ db' = r.db
        /\ last' = [op |-> "generate_daily", day |-> today, ret |-> r.ret]
        /\ UNCHANGED <<today, clock, hist, req>>

\* the generate_challenges command (scheduler job), weekly part
GenerateWeekly ==
    \E S \in Samples(WeeklyTemplates, WEEKLY_SAMPLE) :
        LET r == reset_and_generate_weekly_challenges(db, today, S) IN
        /\ db' = r.db
        /\ last' = [op |-> "generate_weekly", day |-> today, ret |-> r.ret]
        /\ UNCHANGED <<today, clock, hist, req>>

\* the awards log with the challenges of ret added for user uid
NoteAwards(h, uid, ret) ==
    [h EXCEPT !.awards = @ \o [i \in 1 .. Len(ret) |-> <<uid, ret[i]>>]]

\* user = User.objects.get(id=uid);
\* ChallengeManager.update_challenge_progress(user, metric, increment)
UpdateProgress(uid, metric, increment) ==
    /\ clock < MaxClock
    /\ LET r == update_challenge_progress(db, LoadUser(db, uid), metric,
                                          increment, today, clock + 1)
       IN  /\ db' = r.db
           /\ last' = [op |-> "update_challenge_progress", user |-> uid,
                       metric |-> metric, increment |-> increment,
                       day |-> today, now |-> clock + 1, ret |-> r.ret,
                       pre_rows |-> db.user_challenges,
                       pre_xp |-> db.users[uid].xp]
           /\ hist' = NoteAwards(hist, uid, r.ret)
    /\ clock' = clock + 1
    /\ UNCHANGED <<today, req>>

\* midnight, within the days the challenge runs cover
NextDay ==
    /\ today < MaxChallengeDay
    /\ today' = today + 1
    /\ last' = [op |-> "advance_day"]
    /\ UNCHANGED <<db, clock, hist, req>>

NextChallenge ==
    \/ GenerateDaily
    \/ \E uid \in Requesters, m \in Metrics, n \in Increments :
          UpdateProgress(uid, m, n)
    \/ NextDay

SpecChallenge == InitChallenge /\ [][NextChallenge]_vars

\* C9: once a UserChallenge is completed, no later update_challenge_progress
\* changes its completed, completed_at or progress, returns its challenge as
\* newly completed for that user, or adds XP for it: the XP a call adds is the
\* sum of the rewards of the challenges it returns.
C9_CompletionOneWay ==
    [][ \A key \in DOMAIN db.user_challenges :
            db.user_challenges[key][1].completed =>
                /\ key \in DOMAIN db'.user_challenges
                /\ db'.user_challenges[key] = db.user_challenges[key]
                /\ (clock' # clock /\ last'.op = "update_challenge_progress"
                      /\ last'.user = key[1]) =>
                      /\ \A k \in DOMAIN last'.ret : last'.ret[k] # key[2]
                      /\ db'.users[last'.user].xp =
                            db.users[last'.user].xp
                              + SeqSum([k \in DOMAIN last'.ret |->
                                    db.challenges[last'.ret[k]].xp_reward]) ]_vars

\* an update call made for a user and metric whose challenge is already
\* completed and still active today
C9_Witness ==
    /\ last.op = "update_challenge_progress"
    /\ \E key \in DOMAIN last.pre_rows :
          /\ last.pre_rows[key][1].completed
          /\ key[1] = last.user
          /\ db.challenges[key[2]].target_metric = last.metric
          /\ db.challenges[key[2]].is_active
          /\ db.challenges[key[2]].start_date <= last.day
          /\ db.challenges[key[2]].end_date >= last.day

\* the UserChallenge fields of (uid, c) among rows, 0 / not completed if none
ProgressOf(rows, uid, c) ==
    IF <<uid, c>> \in DOMAIN rows
    THEN rows[<<uid, c>>][1]
    ELSE [progress |-> 0, completed |-> FALSE, completed_at |-> -1]

\* C10: for an active challenge of the metric whose period contains today,
\* each update_challenge_progress call made while it is not completed adds
\* the increment to progress; the call after which progress >= target_value
\* completes it, returns it and adds its xp_reward; over all calls a
\* (user, challenge) is returned and rewarded at most once, and exactly once
\* when completed.
C10_ProgressAndAward ==
    /\ (last.op = "update_challenge_progress") =>
          /\ \A c \in DOMAIN db.challenges :
                ( /\ db.challenges[c].target_metric = last.metric
                  /\ db.challenges[c].is_active
                  /\ db.challenges[c].start_date <= last.day
                  /\ db.challenges[c].end_date >= last.day ) =>
                    LET pre  == ProgressOf(last.pre_rows, last.user, c)
                        post == ProgressOf(db.user_challenges, last.user, c)
                        returned == \E k \in DOMAIN last.ret : last.ret[k] = c
                    IN  IF pre.completed
                        THEN post = pre /\ ~returned
                        ELSE /\ post.progress = pre.progress + last.increment
                             /\ post.completed
                                  <=> post.progress >= db.challenges[c].target_value
                             /\ returned <=> post.completed
                             /\ post.completed => post.completed_at = last.now
          /\ db.users[last.user].xp =
                last.pre_xp + SeqSum([k \in DOMAIN last.ret |->
                                        db.challenges[last.ret[k]].xp_reward])
    /\ \A i, j \in DOMAIN hist.awards : hist.awards[i] = hist.awards[j] => i = j
    /\ \A key \in DOMAIN db.user_challenges :
          db.user_challenges[key][1].completed
            <=> \E k \in DOMAIN hist.awards : hist.awards[k] = key

\* target 3 reached by a third increment of 1: completed, returned, +150 XP
C10_Witness ==
    /\ last.op = "update_challenge_progress"
    /\ last.increment = 1
    /\ \E c \in DOMAIN db.challenges :
          /\ db.challenges[c].target_value = 3
          /\ ProgressOf(last.pre_rows, last.user, c).progress = 2
          /\ ProgressOf(db.user_challenges, last.user, c).completed
          /\ last.ret = <<c>>
          /\ db.users[last.user].xp = last.pre_xp + 150

\* ------------------------------------------------------------ view handlers
ViewSlot == "a"

AllIdle == \A s \in Slots : req[s].pc = "idle"

\* Exercise.is_solved_by(user): the user has a correct submission for it
is_solved_by(d, uid, e) == d.submissions[uid][e].solved

\* UserSubmission.objects.create(user, exercise, is_correct=correct, ...)
CreateSubmission(d, uid, e, correct) ==
    LET sub == d.submissions[uid][e] IN
    [d EXCEPT !.submissions[uid][e] =
        [any |-> TRUE,
         first_correct |-> IF sub.any THEN sub.first_correct ELSE correct,
         solved |-> sub.solved \/ correct]]

\* UserProgress.mark_completed() on the row of (owner.id, l); owner is the
\* instance self.user resolves to
mark_completed(d, owner, l) ==
    IF d.progress[owner.id][l] = "completed"
    THEN [db |-> d, user |-> owner, ret |-> FALSE]
    ELSE LET d1 == [d EXCEPT !.progress[owner.id][l] = "completed"]
             u1 == add_xp_mem(owner, LessonXpReward(l))
             u2 == [u1 EXCEPT !.total_lessons_completed = @ + 1]
         IN  [db |-> SaveUser(SaveUser(d1, u1), u2), user |-> u2, ret |-> TRUE]

\* what one check_and_award_badges(user) call was given and what it did;
\* again: the call before it was for the same user and nothing changed since
CallRecord(d, u, chk, again) ==
    [user |-> u.id, pre_user |-> u, pre_earned |-> EarnedBadgeIds(d, u.id),
     ret |-> chk.ret, post_user |-> chk.user, raised |-> chk.raised,
     again |-> again]

\* the gamification calls of a handler after the XP award, in the order
\* XP, badge check, streak touch, challenge update
StepAfterBadgesFirst(step) ==
    CASE step = "xp" -> "badges"
      [] step = "badges" -> "streak"
      [] step = "streak" -> "challenges"
      [] OTHER -> "idle"

\* the gamification calls of a handler after the XP award, in source order:
\* update_user_streak, check_badges, update_challenge, then the response
StepAfter(step) ==
    CASE step = "xp" -> "streak"
      [] step = "streak" -> "badges"
      [] step = "badges" -> "challenges"
      [] OTHER -> "idle"

\* lesson_detail_view: get_or_create the progress row, mark_in_progress()
OpenLesson(uid, l) ==
    /\ AllIdle
    /\ db' = [db EXCEPT !.progress[uid][l] =
                IF @ = "none" THEN "in_progress" ELSE @]
    /\ last' = [op |-> "lesson_detail_view", user |-> uid, lesson |-> l]
    /\ UNCHANGED <<today, clock, hist, req>>

\* mark_lesson_complete, POST: login_required resolves request.user
BeginLesson(s, uid, l) ==
    /\ req[s].pc = "idle"
    /\ req' = [req EXCEPT ![s] =
                [pc |-> "complete", kind |-> "lesson", user |-> LoadUser(db, uid),
                 lesson |-> l, checked |-> FALSE, checked_db |-> db,
                 todo |-> <<>>, earned_read |-> FALSE, earned |-> {},
                 newly |-> <<>>, streak_badges |-> <<>>]]
    /\ last' = [op |-> "mark_lesson_complete", user |-> uid, lesson |-> l]
    /\ UNCHANGED <<db, today, clock, hist>>

\* mark_lesson_complete: get_or_create and progress.mark_completed(); a row
\* the call creates keeps request.user as its user, a row it fetches loads
\* its user again
CompleteLesson(s) ==
    /\ req[s].pc = "complete"
    /\ LET r == req[s]
           uid == r.user.id
           created == db.progress[uid][r.lesson] = "none"
           owner == IF created THEN r.user ELSE LoadUser(db, uid)
           m == mark_completed(db, owner, r.lesson)
       IN  /\ db' = m.db
           /\ req' = [req EXCEPT ![s] =
                        IF ~m.ret THEN Idle
                        ELSE [r EXCEPT !.pc = StepAfter("xp"),
                                       !.user = IF created THEN m.user ELSE r.user]]
           /\ last' = [op |-> "mark_completed", user |-> uid, lesson |-> r.lesson,
                       created |-> created, ret |-> m.ret, pre_xp |-> db.users[uid].xp]
    /\ UNCHANGED <<today, clock, hist>>

\* submit_code_view: request.user, the lesson gate (403), the evaluation
BeginSubmit(s, uid, e, correct) ==
    /\ req[s].pc = "idle"
    /\ IF db.progress[uid][ExerciseLesson(e)] # "completed"
       THEN /\ last' = [op |-> "submit_code_view", user |-> uid, exercise |-> e,
                        status |-> 403]
            /\ UNCHANGED req
       ELSE /\ req' = [req EXCEPT ![s] =
                        [pc |-> "record", kind |-> "exercise",
                         user |-> LoadUser(db, uid), exercise |-> e,
                         correct |-> correct, checked |-> FALSE,
                         checked_db |-> db, todo |-> <<>>,
                         earned_read |-> FALSE, earned |-> {},
                         newly |-> <<>>, streak_badges |-> <<>>]]
            /\ last' = [op |-> "submit_code_view", user |-> uid, exercise |-> e,
                        status |-> 200]
    /\ UNCHANGED <<db, today, clock, hist>>

\* submit_code_view: was_already_solved, the submission row, the XP of a
\* first correct submission
RecordSubmission(s) ==
    /\ req[s].pc = "record"
    /\ LET r == req[s]
           uid == r.user.id
           was_already_solved == is_solved_by(db, uid, r.exercise)
           d1 == CreateSubmission(db, uid, r.exercise, r.correct)
           u1 == add_xp_mem(r.user, EXERCISE_XP_REWARD)
           u2 == [u1 EXCEPT !.total_exercises_completed = @ + 1]
       IN  IF r.correct /\ ~was_already_solved
           THEN /\ db' = SaveUser(SaveUser(d1, u1), u2)
                /\ req' = [req EXCEPT ![s] = [r EXCEPT !.pc = StepAfter("xp"),
                                                      !.user = u2]]
                /\ last' = [op |-> "submission", user |-> uid, xp_awarded |-> TRUE]
           ELSE /\ db' = d1
                /\ req' = [req EXCEPT ![s] = Idle]
                /\ last' = [op |-> "submission", user |-> uid, xp_awarded |-> FALSE]
    /\ UNCHANGED <<today, clock, hist>>

\* update_user_streak(request.user); streak_badges keeps what its badge
\* check awarded, a return value update_streak drops
TouchStreak(s) ==
    /\ req[s].pc = "streak"
    /\ LET r == req[s]
           uid == r.user.id
           checked == /\ db.streaks[uid].exists
                      /\ db.streaks[uid].last_activity_date # today
           t == update_streak(db, r.user, today)
           d1 == [db EXCEPT !.streaks = t.db.streaks]
       IN  /\ db' = t.db
           /\ req' = [req EXCEPT ![s] =
                        IF t.raised THEN Idle
                        ELSE [r EXCEPT !.pc = StepAfter("streak"), !.user = t.user,
                                       !.checked = checked, !.checked_db = t.db,
                                       !.streak_badges = t.badges]]
           /\ last' = [op |-> "update_user_streak", user |-> uid,
                       calls |-> IF checked
                                 THEN <<CallRecord(d1, r.user,
                                          [ret |-> t.badges, user |-> t.user,
                                           raised |-> t.raised], FALSE)>>
                                 ELSE <<>>]
    /\ UNCHANGED <<today, clock, hist>>

\* newly_earned_badges = check_badges(request.user)
CheckBadges(s) ==
    /\ req[s].pc = "badges"
    /\ LET r == req[s]
           chk == check_and_award_badges(db, r.user)
       IN  /\ db' = chk.db
           /\ req' = [req EXCEPT ![s] =
                        IF chk.raised THEN Idle
                        ELSE [r EXCEPT !.pc = StepAfter("badges"),
                                       !.user = chk.user]]
           /\ last' = [op |-> "check_badges", user |-> r.user.id,
                       calls |-> <<CallRecord(db, r.user, chk,
                                              r.checked /\ r.checked_db = db)>>]
    /\ UNCHANGED <<today, clock, hist>>

\* the metrics a handler reports, in call order
HandlerMetrics(kind) ==
    IF kind = "lesson" THEN <<"lessons_completed">>
    ELSE <<"exercises_solved", "code_submissions">>

\* update_challenge(request.user, metric, 1) for each metric of the handler
RECURSIVE UpdateChallengeSeq(_, _, _, _, _)
UpdateChallengeSeq(d, u, metrics, day, now) ==
    IF metrics = <<>> THEN [db |-> d, user |-> u, ret |-> <<>>]
    ELSE LET r == update_challenge_progress(d, u, Head(metrics), 1, day, now)
             rest == UpdateChallengeSeq(r.db, r.user, Tail(metrics), day, now)
         IN  [rest EXCEPT !.ret = r.ret \o @]

\* the update_challenge calls that end the handler, and its response; the
\* instant is stored only in completed_at, so it advances when a challenge
\* completes
UpdateChallenges(s) ==
    /\ req[s].pc = "challenges"
    /\ LET r == req[s]
           c == UpdateChallengeSeq(db, r.user, HandlerMetrics(r.kind), today,
                                   clock + 1)
       IN  /\ db' = c.db
           /\ last' = [op |-> "update_challenge", user |-> r.user.id,
                       kind |-> r.kind, ret |-> c.ret]
           /\ clock' = IF c.ret = <<>> THEN clock ELSE clock + 1
    /\ req' = [req EXCEPT ![s] = [pc |-> StepAfter("challenges")]]
    /\ UNCHANGED <<today, hist>>

\* the loop of the award_retroactive_badges command over users loaded from d0
RECURSIVE RetroLoop(_, _, _, _)
RetroLoop(st, d0, todo, prev) ==
    IF todo = <<>> THEN st
    ELSE LET uid == Head(todo)
             u == LoadUser(d0, uid)
             chk == check_and_award_badges(st.db, u)
             again == /\ prev # <<>>
                      /\ \A k \in DOMAIN prev :
                            prev[k].user > uid => prev[k].ret = <<>>
                      /\ \A k \in DOMAIN st.calls : st.calls[k].ret = <<>>
             st2 == [db |-> chk.db,
                     calls |-> Append(st.calls, CallRecord(st.db, u, chk, again))]
         IN  IF chk.raised THEN st2 ELSE RetroLoop(st2, d0, Tail(todo), prev)

\* the award_retroactive_badges command: check_badges(user) for every user
RetroactiveBadges ==
    /\ AllIdle
    /\ LET prev == IF last.op = "award_retroactive_badges" THEN last.calls ELSE <<>>
           r == RetroLoop([db |-> db, calls |-> <<>>], db,
                          [i \in 1 .. NUsers |-> i], prev)
       IN  /\ db' = r.db
           /\ last' = [op |-> "award_retroactive_badges", calls |-> r.calls]
    /\ UNCHANGED <<today, clock, hist, req>>

InitView ==
    /\ db = EmptyDb(Catalog)
    /\ today = 0
    /\ clock = 0
    /\ last = NoCall
    /\ hist = NoHist
    /\ req = NoReq

NextView ==
    \/ \E uid \in Requesters, l \in Lessons : OpenLesson(uid, l)
    \/ \E uid \in Requesters, l \in Lessons : BeginLesson(ViewSlot, uid, l)
    \/ CompleteLesson(ViewSlot)
    \/ \E uid \in Requesters, e \in Exercises, correct \in BOOLEAN :
          BeginSubmit(ViewSlot, uid, e, correct)
    \/ RecordSubmission(ViewSlot)
    \/ TouchStreak(ViewSlot)
    \/ CheckBadges(ViewSlot)
    \/ UpdateChallenges(ViewSlot)
    \/ RetroactiveBadges
    \/ (AllIdle /\ GenerateDaily)
    \/ (AllIdle /\ NextDay)

SpecView == InitView /\ [][NextView]_vars

\* the handlers and the badge command on days for which no challenges were
\* generated
NextBadges ==
    \/ \E uid \in Requesters, l \in Lessons : OpenLesson(uid, l)
    \/ \E uid \in Requesters, l \in Lessons : BeginLesson(ViewSlot, uid, l)
    \/ CompleteLesson(ViewSlot)
    \/ \E uid \in Requesters, e \in Exercises, correct \in BOOLEAN :
          BeginSubmit(ViewSlot, uid, e, correct)
    \/ RecordSubmission(ViewSlot)
    \/ TouchStreak(ViewSlot)
    \/ CheckBadges(ViewSlot)
    \/ UpdateChallenges(ViewSlot)
    \/ RetroactiveBadges
    \/ (AllIdle /\ NextDay)

SpecBadges == InitView /\ [][NextBadges]_vars

\* C2: across lesson completions, exercise completions, badge awards and
\* challenge completions (all rewards non-negative) a user's stored xp never
\* decreases and the stored level never decreases.
C2_StoredXpNeverDecreases ==
    [][ \A u \in Users :
            /\ db'.users[u].xp >= db.users[u].xp
            /\ db'.users[u].level >= db.users[u].level ]_vars

\* the calls of check_and_award_badges the last step made
LastCalls == IF "calls" \in DOMAIN last THEN last.calls ELSE <<>>

\* C3: a check_and_award_badges(user) call that follows another one for the
\* same user with no state change in between returns the empty list, creates
\* no UserBadge and adds no XP.
C3_SecondCallAwardsNothing ==
    \A k \in DOMAIN LastCalls :
        LastCalls[k].again =>
            /\ LastCalls[k].ret = <<>>
            /\ LastCalls[k].post_user = LastCalls[k].pre_user
            /\ EarnedBadgeIds(db, LastCalls[k].user) = LastCalls[k].pre_earned

\* the criteria kinds _check_criteria has a branch for
KnownCriteria ==
    {"exercises_solved", "lessons_completed", "xp_earned", "level_reached",
     "streak_days", "friends_count", "perfect_exercise", "module_master"}

\* the xp of instance u after the first n awards of ret
RECURSIVE UserAfterAwards(_, _, _, _)
UserAfterAwards(d, u, ret, n) ==
    IF n = 0 THEN u
    ELSE LET p == UserAfterAwards(d, u, ret, n - 1)
             reward == d.badges[ret[n]].xp_reward
         IN  IF reward > 0 THEN [p EXCEPT !.xp = @ + reward] ELSE p

\* C5: check_and_award_badges(user) awards a badge only if it is active, not
\* held by the user before the call and its criteria hold when it is visited;
\* every awarded badge has its UserBadge row with progress 100, is in the
\* returned list once, and raises the xp of the user by exactly its reward
\* (in the instance and in its row); inactive badges and badges of an
\* unknown criteria kind are never awarded.
C5_AwardsOnlyEarned ==
    \A k \in DOMAIN LastCalls :
        LET c == LastCalls[k] IN
        ~c.raised =>
            /\ \A i \in DOMAIN c.ret :
                  LET b == c.ret[i]
                      seen == UserAfterAwards(db, c.pre_user, c.ret, i - 1)
                  IN  /\ db.badges[b].is_active
                      /\ db.badges[b].criteria.type \in KnownCriteria
                      /\ b \notin c.pre_earned
                      /\ \A j \in DOMAIN c.ret : c.ret[j] = b => j = i
                      /\ UserBadgeRows(db, c.user, b) = <<[progress |-> 100]>>
                      /\ LET crit == db.badges[b].criteria IN
                         CASE crit.type = "xp_earned" -> seen.xp >= crit.n
                           [] crit.type = "level_reached" ->
                                \E L \in LevelCandidates :
                                    /\ L >= crit.n
                                    /\ CumulativeThreshold(L) <= Scaled(seen.xp)
                           [] OTHER -> check_criteria(db, c.pre_user, crit)
            /\ c.post_user.xp = c.pre_user.xp + RewardSum(db, c.ret)
            /\ RewardSum(db, c.ret) > 0 => db.users[c.user].xp = c.post_user.xp
            /\ EarnedBadgeIds(db, c.user) = c.pre_earned \cup Range(c.ret)

\* a handler's check_badges call that awards "First Steps" alone: +50 XP
C5_Witness ==
    /\ last.op = "check_badges"
    /\ \E k \in DOMAIN LastCalls :
          /\ LastCalls[k].ret = <<1>>
          /\ db.badges[1].criteria.type = "exercises_solved"
          /\ LastCalls[k].post_user.xp = LastCalls[k].pre_user.xp + 50
          /\ \E b \in DOMAIN db.badges :
                /\ ~db.badges[b].is_active
                /\ check_criteria(db, LastCalls[k].post_user, db.badges[b].criteria)
                /\ UserBadgeRows(db, LastCalls[k].user, b) = <<>>

\* ------------------------------------------------- handlers side by side
\* check_badges(request.user), entered: badges = Badge.objects.filter(...)
\* is fetched when the loop starts, earned_badge_ids at its first use
BadgeBegin(s) ==
    /\ req[s].pc = "badges"
    /\ LET todo == ActiveBadges(db) IN
       req' = [req EXCEPT ![s] =
                [@ EXCEPT !.pc = IF todo = <<>> THEN StepAfter("badges") ELSE "visit",
                          !.todo = todo, !.earned_read = FALSE,
                          !.earned = {}, !.newly = <<>>]]
    /\ last' = [op |-> "check_badges_begin", user |-> req[s].user.id]
    /\ UNCHANGED <<db, today, clock, hist>>

\* one iteration of the loop; an IntegrityError leaves the handler (500)
BadgeVisit(s) ==
    /\ req[s].pc = "visit"
    /\ LET r == req[s]
           b == Head(r.todo)
           earned == IF r.earned_read THEN r.earned
                     ELSE EarnedBadgeIds(db, r.user.id)
           st == BadgeStep([db |-> db, user |-> r.user, ret |-> r.newly,
                            raised |-> FALSE], earned, b)
       IN  /\ db' = st.db
           /\ req' = [req EXCEPT ![s] =
                        IF st.raised THEN Idle
                        ELSE [r EXCEPT
                                !.pc = IF Tail(r.todo) = <<>>
                                       THEN StepAfter("badges") ELSE "visit",
                                !.todo = Tail(r.todo), !.earned_read = TRUE,
                                !.earned = earned, !.user = st.user,
                                !.newly = st.ret]]
           /\ last' = [op |-> "check_badges_visit", user |-> r.user.id,
                       badge |-> b, raised |-> st.raised]
    /\ UNCHANGED <<today, clock, hist>>

NextRace ==
    \E s \in Slots :
        \/ \E uid \in Requesters, l \in Lessons : BeginLesson(s, uid, l)
        \/ CompleteLesson(s)
        \/ TouchStreak(s)
        \/ BadgeBegin(s)
        \/ BadgeVisit(s)
        \/ UpdateChallenges(s)

SpecRace == InitView /\ [][NextRace]_vars

\* C4: in every reachable state, also those reached by two
\* check_and_award_badges calls for one user whose existence check and create
\* interleave, a (user, badge) pair has at most one UserBadge row.
C4_OneRowPerUserBadge ==
    \A u \in Users : \A b \in DOMAIN db.badges :
        Len(UserBadgeRows(db, u, b)) <= 1

\* the create of the call that lost the race was refused: the pair has the
\* row of the other call, and that call did not have it in its earned ids
C4_Witness ==
    /\ last.op = "check_badges_visit"
    /\ last.raised
    /\ Len(UserBadgeRows(db, last.user, last.badge)) = 1

\* ------------------------------------------- the generate_challenges command
\* the --force reset of the command: every challenge of `type` that starts at
\* `start` is deactivated
ForceReset(d, type, start) ==
    [d EXCEPT !.challenges =
        [i \in DOMAIN @ |->
            IF @[i].challenge_type = type /\ @[i].start_date = start
            THEN [@[i] EXCEPT !.is_active = FALSE]
            ELSE @[i]]]

\* ChallengeManager.deactivate_expired_challenges()
deactivate_expired_challenges(d, day) ==
    LET expired == {i \in DOMAIN d.challenges :
                        d.challenges[i].is_active /\ d.challenges[i].end_date < day}
    IN  [db |-> [d EXCEPT !.challenges =
                    [i \in DOMAIN @ |->
                        IF i \in expired THEN [@[i] EXCEPT !.is_active = FALSE]
                        ELSE @[i]]],
         ret |-> Cardinality(expired)]

StartOfWeek(day) == day - Weekday(day)

\* what one call of a generator was given and what it returned; `first` says
\* that no challenge of the type had been created for the period before
GenCall(type, start, end, forced, pre, r) ==
    [type |-> type, start |-> start, end |-> end, forced |-> forced,
     first |-> ~\E i \in DOMAIN pre.challenges :
                    /\ pre.challenges[i].challenge_type = type
                    /\ pre.challenges[i].start_date = start,
     pre |-> pre.challenges, post |-> r.db.challenges, ret |-> r.ret]

CommandTypes == {"daily", "weekly", "both"}

\* Command.handle of generate_challenges, run with --type type and, when
\* force, --force; SD and SW are the samples random.sample draws
GenerateChallengesCommand(type, force, SD, SW) ==
    /\ Len(db.challenges) + DAILY_SAMPLE + WEEKLY_SAMPLE <= MaxChallengeRows
    /\ LET doDaily == type \in {"daily", "both"}
           doWeekly == type \in {"weekly", "both"}
           d1 == IF doDaily /\ force THEN ForceReset(db, "daily", today) ELSE db
           r1 == reset_and_generate_daily_challenges(d1, today, SD)
           d2 == IF doDaily THEN r1.db ELSE db
           d3 == IF doWeekly /\ force
                 THEN ForceReset(d2, "weekly", StartOfWeek(today)) ELSE d2
           r2 == reset_and_generate_weekly_challenges(d3, today, SW)
           d4 == IF doWeekly THEN r2.db ELSE d2
           r3 == deactivate_expired_challenges(d4, today)
       IN  /\ db' = r3.db
           /\ last' = [op |-> "generate_challenges", type |-> type,
                       force |-> force, day |-> today,
                       gen_calls |->
                         (IF doDaily
                          THEN <<GenCall("daily", today, today, force, db, r1)>>
                          ELSE <<>>)
                         \o (IF doWeekly
                             THEN <<GenCall("weekly", StartOfWeek(today),
                                            StartOfWeek(today) + 6, force, d2, r2)>>
                             ELSE <<>>),
                       expired |-> r3.ret]
    /\ UNCHANGED <<today, clock, hist, req>>

\* midnight, within the days the generation runs cover
GenNextDay ==
    /\ today < MaxGenDay
    /\ today' = today + 1
    /\ last' = [op |-> "advance_day"]
    /\ UNCHANGED <<db, clock, hist, req>>

\* a fresh store on one of the last days of a week
InitGenerate ==
    /\ db = EmptyDb(<<>>)
    /\ today \in FirstGenDay .. MaxGenDay
    /\ clock = 0
    /\ last = NoCall
    /\ hist = NoHist
    /\ req = NoReq

NextGenerate ==
    \/ \E type \in CommandTypes, force \in BOOLEAN,
          SD \in Samples(DailyTemplates, DAILY_SAMPLE),
          SW \in Samples(WeeklyTemplates, WEEKLY_SAMPLE) :
            GenerateChallengesCommand(type, force, SD, SW)
    \/ GenNextDay

SpecGenerate == InitGenerate /\ [][NextGenerate]_vars

GenCalls == IF "gen_calls" \in DOMAIN last THEN Range(last.gen_calls) ELSE {}

SampleSize(type) == IF type = "daily" THEN DAILY_SAMPLE ELSE WEEKLY_SAMPLE

\* the call created SampleSize rows, all active, of the type, spanning the
\* period, and returned them
CreatedForPeriod(c) ==
    /\ Len(c.ret) = SampleSize(c.type)
    /\ Len(c.post) = Len(c.pre) + SampleSize(c.type)
    /\ \A k \in 1 .. Len(c.ret) :
          /\ c.ret[k] = Len(c.pre) + k
          /\ c.post[c.ret[k]].is_active
          /\ c.post[c.ret[k]].challenge_type = c.type
          /\ c.post[c.ret[k]].start_date = c.start
          /\ c.post[c.ret[k]].end_date = c.end

\* the call returned [] and created no Challenge row
CreatedNothing(c) == c.ret = <<>> /\ Len(c.post) = Len(c.pre)

\* C11 as stated: the first generator call of a period creates exactly 3
\* (daily) or 2 (weekly) active challenges spanning the period, and every
\* further call in the period returns [] and creates no Challenge row.
C11_IdempotentPerPeriod ==
    \A c \in GenCalls :
        IF c.first THEN CreatedForPeriod(c) ELSE CreatedNothing(c)

\* C11 amended: the first generator call of a period creates exactly 3 (daily)
\* or 2 (weekly) active challenges spanning the period; a further call in the
\* period returns [] and creates no Challenge row unless the command runs with
\* --force, and then it creates 3 (2) challenges for the period again.
C11_IdempotentUnlessForced ==
    \A c \in GenCalls :
        /\ (c.first \/ c.forced) => CreatedForPeriod(c)
        /\ (~c.first /\ ~c.forced) => CreatedNothing(c)
        /\ c.start <= last.day /\ last.day <= c.end
        /\ c.type = "weekly" => Weekday(c.start) = 0 /\ c.end = c.start + 6

\* a second, unforced call in a period returned [], and a week has turned
C11_Witness ==
    /\ \E c \in GenCalls : ~c.first /\ ~c.forced /\ c.type = "weekly"
                           /\ CreatedNothing(c) /\ c.start > 0
    /\ \E c \in GenCalls : ~c.first /\ ~c.forced /\ c.type = "daily"
                           /\ CreatedNothing(c)

\* ------------------------------------------------------------ social manager
Friendship(user, friend, status) ==
    [user |-> user, friend |-> friend, status |-> status]

\* the filter with Q(user=a, friend=b) alone
PairRowsOneWay(d, a, b) ==
    {i \in DOMAIN d.friendships :
        d.friendships[i].user = a /\ d.friendships[i].friend = b}

\* Friendship.objects.filter(Q(user=a, friend=b) | Q(user=b, friend=a))
PairRows(d, a, b) ==
    {i \in DOMAIN d.friendships :
        \/ d.friendships[i].user = a /\ d.friendships[i].friend = b
        \/ d.friendships[i].user = b /\ d.friendships[i].friend = a}

\* Friendship.objects.filter(user=a, friend=b)
DirectedRows(d, a, b) ==
    {i \in DOMAIN d.friendships :
        d.friendships[i].user = a /\ d.friendships[i].friend = b}

\* .first() under Meta.ordering = ['-created_at']: the newest row, 0 for None
First(S) == IF S = {} THEN 0 ELSE CHOOSE i \in S : \A j \in S : j <= i

\* Friendship.objects.create(...) under unique_together = ['user', 'friend']:
\* the insert fails (IntegrityError) when the ordered pair has a row
InsertFriendship(d, row) ==
    IF DirectedRows(d, row.user, row.friend) # {}
    THEN [ok |-> FALSE, db |-> d]
    ELSE [ok |-> TRUE, db |-> [d EXCEPT !.friendships = Append(@, row)]]

\* friendship.status = status; friendship.save()
SetStatus(d, i, status) == [d EXCEPT !.friendships[i].status = status]

\* friendship.delete()
DeleteFriendship(d, i) ==
    [d EXCEPT !.friendships =
        SubSeq(@, 1, i - 1) \o SubSeq(@, i + 1, Len(@))]

\* a resend that creates a second row in place of reusing the rejected one
ResendRejectedAsNew(d, existing) ==
    [d EXCEPT !.friendships =
        Append(@, Friendship(@[existing].user, @[existing].friend, "pending"))]

\* existing.status = 'pending'; existing.save()
ResendRejected(d, existing) == SetStatus(d, existing, "pending")

Failure(error) == [success |-> FALSE, text |-> error]
Success(message) == [success |-> TRUE, text |-> message]

\* what a manager call leaves: the store, its result dict, and whether an
\* exception left the call instead
Outcome(d, result) == [db |-> d, result |-> result, raised |-> FALSE]

\* SocialManager.send_friend_request(from_user, to_user)
send_friend_request(d, from_user, to_user) ==
    IF from_user = to_user
    THEN Outcome(d, Failure("You cannot send a friend request to yourself"))
    ELSE LET existing == First(PairRows(d, from_user, to_user)) IN
         IF existing # 0 /\ d.friendships[existing].status = "accepted"
         THEN Outcome(d, Failure("You are already friends"))
         ELSE IF existing # 0 /\ d.friendships[existing].status = "pending"
         THEN Outcome(d, Failure("Friend request already pending"))
         ELSE IF existing # 0 /\ d.friendships[existing].status = "rejected"
         THEN Outcome(ResendRejected(d, existing),
                      Success("Friend request sent"))
         ELSE LET ins == InsertFriendship(d,
                            Friendship(from_user, to_user, "pending"))
              IN  IF ins.ok
                  THEN Outcome(ins.db, Success("Friend request sent"))
                  ELSE [db |-> d, result |-> Failure("IntegrityError"),
                        raised |-> TRUE]

\* the lookup without the status='pending' filter
AnyRowFrom(d, user, requester) == First(DirectedRows(d, requester, user))

\* Friendship.objects.get(user=requester, friend=user, status='pending'),
\* 0 for DoesNotExist
PendingRow(d, user, requester) ==
    First({i \in DirectedRows(d, requester, user) :
              d.friendships[i].status = "pending"})

\* SocialManager.accept_friend_request(user, requester), user and requester
\* the instances the caller holds
accept_friend_request(d, user, requester) ==
    LET friendship == PendingRow(d, user.id, requester.id) IN
    IF friendship = 0
    THEN Outcome(d, Failure("Friend request not found"))
    ELSE LET d1 == SetStatus(d, friendship, "accepted")
             c1 == check_and_award_badges(d1, user)
             c2 == check_and_award_badges(c1.db, requester)
         IN  IF c1.raised \/ c2.raised
             THEN [db |-> (IF c1.raised THEN c1.db ELSE c2.db),
                   result |-> Failure("IntegrityError"), raised |-> TRUE]
             ELSE Outcome(c2.db, Success("Friend request accepted"))

\* SocialManager.reject_friend_request(user, requester)
reject_friend_request(d, user, requester) ==
    LET friendship == PendingRow(d, user, requester) IN
    IF friendship = 0
    THEN Outcome(d, Failure("Friend request not found"))
    ELSE Outcome(SetStatus(d, friendship, "rejected"),
                 Success("Friend request rejected"))

\* SocialManager.remove_friend(user, friend)
remove_friend(d, user, friend) ==
    LET friendship == First({i \in PairRows(d, user, friend) :
                                d.friendships[i].status = "accepted"})
    IN  IF friendship # 0
        THEN Outcome(DeleteFriendship(d, friendship), Success("Friend removed"))
        ELSE Outcome(d, Failure("Friendship not found"))

\* SocialManager.get_friends(user), reading one side of the rows only
get_friends_one_way(d, user) ==
    {d.friendships[i].friend :
        i \in {j \in DOMAIN d.friendships :
                  /\ d.friendships[j].user = user
                  /\ d.friendships[j].status = "accepted"}}

\* SocialManager.get_friends(user): the ids of the users returned
get_friends(d, user) ==
    {(IF d.friendships[i].user = user THEN d.friendships[i].friend
      ELSE d.friendships[i].user) :
        i \in {j \in DOMAIN d.friendships :
                  /\ (d.friendships[j].user = user \/ d.friendships[j].friend = user)
                  /\ d.friendships[j].status = "accepted"}}

\* SocialManager.get_pending_requests(user): the rows returned
get_pending_requests(d, user) ==
    {i \in DOMAIN d.friendships :
        d.friendships[i].friend = user /\ d.friendships[i].status = "pending"}

\* SocialManager.get_sent_requests(user): the rows returned
get_sent_requests(d, user) ==
    {i \in DOMAIN d.friendships :
        d.friendships[i].user = user /\ d.friendships[i].status = "pending"}

\* SocialManager.get_friendship_status(user1, user2)
get_friendship_status(d, user1, user2) ==
    LET friendship == First(PairRows(d, user1, user2)) IN
    IF friendship # 0 THEN d.friendships[friendship].status ELSE "none"

\* ---------------------------------------------------- the friendship views
\* 'Social Butterfly' of create_default_badges, with the target brought down
\* to what two users reach
SocialCatalog ==
    << Badge("Social Butterfly", "achievement", "friends_count", 1, 150, TRUE) >>

InitSocial ==
    /\ db = EmptyDb(SocialCatalog)
    /\ today = 0
    /\ clock = 0
    /\ last = NoCall
    /\ hist = NoHist
    /\ req = NoReq

\* what the views record of a manager call: who called, about whom, the
\* Friendship rows before the call and the outcome
SocialCall(op, uid, other, r) ==
    [op |-> op, user |-> uid, other |-> other, pre |-> db.friendships,
     result |-> r.result, raised |-> r.raised]

\* send_friend_request_view, POST by uid with user_id = other
SendFriendRequest(uid, other) ==
    LET r == send_friend_request(db, uid, other) IN
    /\ db' = r.db
    /\ last' = SocialCall("send_request", uid, other, r)
    /\ UNCHANGED <<today, clock, hist, req>>

\* accept_friend_request_view, POST by uid with user_id = other
AcceptFriendRequest(uid, other) ==
    LET r == accept_friend_request(db, LoadUser(db, uid), LoadUser(db, other)) IN
    /\ db' = r.db
    /\ last' = SocialCall("accept_request", uid, other, r)
    /\ UNCHANGED <<today, clock, hist, req>>

\* reject_friend_request_view, POST by uid with user_id = other
RejectFriendRequest(uid, other) ==
    LET r == reject_friend_request(db, uid, other) IN
    /\ db' = r.db
    /\ last' = SocialCall("reject_request", uid, other, r)
    /\ UNCHANGED <<today, clock, hist, req>>

\* remove_friend_view, POST by uid with user_id = other
RemoveFriend(uid, other) ==
    LET r == remove_friend(db, uid, other) IN
    /\ db' = r.db
    /\ last' = SocialCall("remove_friend", uid, other, r)
    /\ UNCHANGED <<today, clock, hist, req>>

NextSocial ==
    \E uid \in Users, other \in Users :
        \/ SendFriendRequest(uid, other)
        \/ AcceptFriendRequest(uid, other)
        \/ RejectFriendRequest(uid, other)
        \/ RemoveFriend(uid, other)

SpecSocial == InitSocial /\ [][NextSocial]_vars

SocialOps == {"send_request", "accept_request", "reject_request", "remove_friend"}

\* the rows of `rows` from a to b with one of the statuses
HasRow(rows, a, b, statuses) ==
    \E i \in DOMAIN rows :
        rows[i].user = a /\ rows[i].friend = b /\ rows[i].status \in statuses

\* the guard of the last call was violated in the state it was called in
GuardViolated ==
    \/ /\ last.op = "send_request"
       /\ \/ last.user = last.other
          \/ HasRow(last.pre, last.user, last.other, {"accepted", "pending"})
          \/ HasRow(last.pre, last.other, last.user, {"accepted", "pending"})
    \/ /\ last.op \in {"accept_request", "reject_request"}
       /\ ~HasRow(last.pre, last.other, last.user, {"pending"})
    \/ /\ last.op = "remove_friend"
       /\ ~HasRow(last.pre, last.user, last.other, {"accepted"})
       /\ ~HasRow(last.pre, last.other, last.user, {"accepted"})

\* C12: a friendship operation whose guard is violated returns success=false
\* with a reason, raises nothing and leaves every Friendship row as it was.
C12_GuardFailureChangesNothing ==
    (last.op \in SocialOps /\ GuardViolated)
        => /\ ~last.raised
           /\ ~last.result.success
           /\ last.result.text # ""
           /\ db.friendships = last.pre

\* a request sent to a user whose own request to the sender is pending
C12_Witness ==
    /\ last.op = "send_request"
    /\ HasRow(last.pre, last.other, last.user, {"pending"})
    /\ ~last.result.success
    /\ db.friendships = last.pre

\* C13: a send_request(A,B) made while the row A->B is rejected (after
\* send_request(A,B) and reject_request(B,A)) succeeds, creates no row, and
\* leaves that same row pending, every other row as it was.
C13_ResendReusesRow ==
    (last.op = "send_request"
        /\ HasRow(last.pre, last.user, last.other, {"rejected"}))
        => /\ last.result.success /\ ~last.raised
           /\ Len(db.friendships) = Len(last.pre)
           /\ Cardinality(PairRows(db, last.user, last.other)) = 1
           /\ \A i \in DOMAIN last.pre :
                 db.friendships[i] =
                    IF last.pre[i].user = last.user /\ last.pre[i].friend = last.other
                    THEN Friendship(last.user, last.other, "pending")
                    ELSE last.pre[i]

\* the requester sends again after the rejection and the row is pending again
C13_Witness ==
    /\ last.op = "send_request"
    /\ HasRow(last.pre, last.user, last.other, {"rejected"})
    /\ last.result.success
    /\ HasRow(db.friendships, last.user, last.other, {"pending"})
    /\ Len(db.friendships) = 1

\* C14: friendship_status(X,Y) = friendship_status(Y,X) in every state, and
\* after an accepted request each of the two users is in get_friends of the
\* other and the status is accepted from both sides.
C14_FriendshipSymmetric ==
    /\ \A x \in Users, y \in Users :
          get_friendship_status(db, x, y) = get_friendship_status(db, y, x)
    /\ (last.op = "accept_request" /\ last.result.success)
          => /\ HasRow(last.pre, last.other, last.user, {"pending"})
             /\ last.other \in get_friends(db, last.user)
             /\ last.user \in get_friends(db, last.other)
             /\ get_friendship_status(db, last.user, last.other) = "accepted"
             /\ get_friendship_status(db, last.other, last.user) = "accepted"
    /\ \A x \in Users, y \in Users :
          (y \in get_friends(db, x)) <=> (x \in get_friends(db, y))

\* user 2 accepted the request of user 1
C14_Witness ==
    /\ last.op = "accept_request" /\ last.result.success
    /\ last.user = 2 /\ last.other = 1
    /\ get_friends(db, 1) = {2}
    /\ get_friends(db, 2) = {1}

\* C19 as stated: the friends_count predicate of a user holds exactly when
\* the user has at least `count` accepted friendships, counted in either
\* direction (the size of get_friends(user)); after an accepted request it
\* sees the new friendship for both users.
C19_FriendsCountEitherDirection ==
    \A uid \in Users, n \in 1 .. NUsers :
        check_criteria(db, LoadUser(db, uid), [type |-> "friends_count", n |-> n])
            <=> Cardinality(get_friends(db, uid)) >= n

\* C20 as stated: a successful send_request(A,B) leaves a pending row A->B,
\* listed in B's pending requests and in A's sent requests, and no pending
\* row B->A that A could accept; a rejected row B->A is not reused.
C20_PendingRowIsDirected ==
    (last.op = "send_request" /\ last.result.success)
        => /\ HasRow(db.friendships, last.user, last.other, {"pending"})
           /\ \E i \in get_pending_requests(db, last.other) :
                 db.friendships[i].user = last.user
           /\ \E i \in get_sent_requests(db, last.user) :
                 db.friendships[i].friend = last.other
           /\ PendingRow(db, last.user, last.other) = 0

\* ------------------------------------------------------------- rate limiter
GEMINI_DAILY_LIMIT == 100

\* the instants of a day: SecondsPerDay seconds of TicksPerSecond ticks each
TicksPerDay == SecondsPerDay * TicksPerSecond

\* timezone.now() as ticks since day 0, at tick t of day `day`
Instant(day, t) == day * TicksPerDay + t

\* the cache holds the one counter key; a key of an older date is never read
NoEntry == [present |-> FALSE, key |-> 0, value |-> 0, expires |-> 0]

\* cache.get(key, default) at the instant now
cache_get(d, key, default, now) ==
    IF d.cache.present /\ d.cache.key = key /\ d.cache.expires > now
    THEN d.cache.value
    ELSE default

\* cache.set(key, value, timeout) at the instant now, timeout in seconds; a
\* timeout of 0 stores nothing: the backend either drops the key or, when
\* keep, leaves the entry it has
cache_set(d, key, value, timeout, now, keep) ==
    IF timeout = 0
    THEN (IF keep /\ d.cache.present /\ d.cache.key = key
          THEN d ELSE [d EXCEPT !.cache = NoEntry])
    ELSE [d EXCEPT !.cache = [present |-> TRUE, key |-> key, value |-> value,
                              expires |-> now + timeout * TicksPerSecond]]

\* int((tomorrow - timezone.now()).total_seconds()) at tick t of the day
seconds_until_midnight(t) == (TicksPerDay - t) \div TicksPerSecond

\* check_gemini_rate_limit() at tick t of day `day`
check_gemini_rate_limit(d, day, t, keep) ==
    LET now == Instant(day, t)
        current_count == cache_get(d, day, 0, now)
    IN  IF current_count >= GEMINI_DAILY_LIMIT
        THEN [db |-> d, allowed |-> FALSE, remaining |-> 0]
        ELSE LET new_count == current_count + 1 IN
             [db |-> cache_set(d, day, new_count, seconds_until_midnight(t),
                               now, keep),
              allowed |-> TRUE,
              remaining |-> GEMINI_DAILY_LIMIT - new_count]

\* get_gemini_rate_limit_status() at tick t of day `day`
get_gemini_rate_limit_status(d, day, t) ==
    LET current_count == cache_get(d, day, 0, Instant(day, t)) IN
    [current_count |-> current_count, limit |-> GEMINI_DAILY_LIMIT,
     remaining |-> Max(0, GEMINI_DAILY_LIMIT - current_count),
     is_limit_reached |-> current_count >= GEMINI_DAILY_LIMIT]

\* ------------------------------------------------ the rate limiter over days
\* hist.consumed: the check_gemini_rate_limit calls made on the current date
InitRate ==
    /\ db = [cache |-> NoEntry]
    /\ today = 0
    /\ clock \in 0 .. TicksPerDay - 1
    /\ last = NoCall
    /\ hist = [consumed |-> 0]
    /\ req = NoReq

\* a caller about to use the API calls check_gemini_rate_limit()
CheckAndConsume ==
    /\ hist.consumed <= GEMINI_DAILY_LIMIT + 1
    /\ \E keep \in BOOLEAN :
          LET r == check_gemini_rate_limit(db, today, clock, keep) IN
          /\ db' = r.db
          /\ last' = [op |-> "check_and_consume", before |-> hist.consumed,
                      allowed |-> r.allowed, remaining |-> r.remaining,
                      count_before |-> cache_get(db, today, 0, Instant(today, clock)),
                      count_after |-> cache_get(r.db, today, 0, Instant(today, clock))]
    /\ hist' = [consumed |-> hist.consumed + 1]
    /\ UNCHANGED <<today, clock, req>>

\* a status display calls get_gemini_rate_limit_status()
PeekStatus ==
    /\ LET r == get_gemini_rate_limit_status(db, today, clock) IN
       last' = [op |-> "peek_status", before |-> hist.consumed,
                remaining |-> r.remaining, current_count |-> r.current_count,
                is_limit_reached |-> r.is_limit_reached]
    /\ UNCHANGED <<db, today, clock, hist, req>>

\* time passes within the date
RateTick ==
    /\ clock < TicksPerDay - 1
    /\ clock' = clock + 1
    /\ last' = [op |-> "tick"]
    /\ UNCHANGED <<db, today, hist, req>>

\* midnight: the date changes
RateMidnight ==
    /\ clock = TicksPerDay - 1
    /\ today < MaxRateDay
    /\ today' = today + 1
    /\ clock' = 0
    /\ hist' = [consumed |-> 0]
    /\ last' = [op |-> "advance_day"]
    /\ UNCHANGED <<db, req>>

NextRate == CheckAndConsume \/ PeekStatus \/ RateTick \/ RateMidnight

SpecRate == InitRate /\ [][NextRate]_vars

\* C15 as stated: on one date, starting from an absent counter, the first
\* 100 check_and_consume calls are allowed with remaining 99, 98, ..., 0 and
\* each raises the counter by exactly 1; after them peek_status reports
\* remaining 0, every further call is refused with remaining 0 and leaves the
\* counter alone, and the counter never exceeds the ceiling.
C15_CeilingOnOneDate ==
    /\ last.op = "check_and_consume" =>
          IF last.before < GEMINI_DAILY_LIMIT
          THEN /\ last.allowed
               /\ last.remaining = GEMINI_DAILY_LIMIT - 1 - last.before
               /\ last.count_after = last.count_before + 1
               /\ last.count_after = last.before + 1
          ELSE /\ ~last.allowed
               /\ last.remaining = 0
               /\ last.count_after = last.count_before
    /\ (last.op = "peek_status" /\ last.before >= GEMINI_DAILY_LIMIT) =>
          last.remaining = 0
    /\ db.cache.present => db.cache.value <= GEMINI_DAILY_LIMIT

\* ------------------------------------------------- order of the handler calls
XpAwardOps == {"mark_completed", "submission"}

C17_BadgeCheckSeesAwardedXp ==
    \A s \in Slots :
        req[s].pc \in {"streak", "badges"} =>
            /\ req[s].user.xp >= db.users[req[s].user.id].xp
            /\ req[s].user.level >= db.users[req[s].user.id].level
            /\ \A b \in DOMAIN db.badges :
                  db.badges[b].criteria.type \in {"xp_earned", "level_reached"} =>
                      (check_criteria(db, req[s].user, db.badges[b].criteria)
                          <=> check_criteria(db, LoadUser(db, req[s].user.id),
                                             db.badges[b].criteria))

\* C18 as stated: a check-then-write that loses the race on its natural key
\* takes the uniqueness violation as "already exists" and completes
\* normally; no handler ends with the storage error.
C18_LoserCompletesNormally ==
    (last.op = "check_badges_visit") => ~last.raised

\* ------------------------------------------- life of a friendship pair
\* the status changes a pair may make, with the operation that makes them
PairMoves ==
    { <<"none", "pending", "send_request">>,
      <<"pending", "accepted", "accept_request">>,
      <<"pending", "rejected", "reject_request">>,
      <<"rejected", "pending", "send_request">>,
      <<"accepted", "none", "remove_friend">> }

\* C21: over every call of the friendship views, from the rows before the
\* call to the rows after it,
\* the status of a pair changes only none -> pending (send_request),
\* pending -> accepted (accept_request), pending -> rejected
\* (reject_request), rejected -> pending (send_request) and accepted -> none
\* (remove_friend); a row is deleted only by remove_friend and only when it
\* is accepted, and no row has user equal to friend.
C21_PairLifecycle ==
    last.op \in SocialOps =>
        LET pre == [db EXCEPT !.friendships = last.pre] IN
        /\ \A x \in Users, y \in Users :
              LET before == get_friendship_status(pre, x, y)
                  after == get_friendship_status(db, x, y)
              IN  before # after =>
                      /\ <<before, after, last.op>> \in PairMoves
                      /\ {x, y} = {last.user, last.other}
                      /\ last.result.success
        /\ Len(db.friendships) < Len(last.pre) =>
              /\ last.op = "remove_friend"
              /\ get_friendship_status(pre, last.user, last.other) = "accepted"
              /\ Len(db.friendships) = Len(last.pre) - 1
        /\ \A i \in DOMAIN db.friendships :
              db.friendships[i].user # db.friendships[i].friend

\* a friend was removed: the accepted row is gone and the pair is at none
C21_Witness ==
    /\ last.op = "remove_friend" /\ last.result.success
    /\ HasRow(last.pre, last.other, last.user, {"accepted"})
    /\ get_friendship_status(db, last.user, last.other) = "none"
    /\ db.friendships = <<>>


\* ------------------------------------------------- callers of the AI service
\* what model.generate_content() does when it is called: a response with
\* text, a response without text, an exception naming the quota (429), or
\* any other exception
ApiOutcomes == {"text", "empty", "quota_error", "error"}

MessageKeys == {1}

\* the result of one operation that may call the API: the store after it,
\* whether check_gemini_rate_limit() was called and what it returned, whether
\* generate_content() was called, and what the operation returned
AiResult(d, gate, allowed, api_called, result) ==
    [db |-> d, gate |-> gate, allowed |-> allowed, api_called |-> api_called,
     result |-> result]

ChatMessage(role, content) == [role |-> role, content |-> content]

\* the except branch of send_message: the error text is chosen by the
\* exception's message, stored as the assistant message and returned
ChatFailure(d, gate, allowed, api_called, exception) ==
    LET error_message == IF exception = "quota_error" THEN "high_demand"
                         ELSE "generic_error"
    IN  AiResult([d EXCEPT !.messages =
                      Append(@, ChatMessage("assistant", error_message))],
                 gate, allowed, api_called,
                 [success |-> FALSE, message |-> error_message,
                  raised |-> exception])

\* the end of the try block of send_message: the assistant message is stored
ChatSuccess(d, gate, allowed, api_called, assistant_content) ==
    AiResult([d EXCEPT !.messages =
                  Append(@, ChatMessage("assistant", assistant_content))],
             gate, allowed, api_called,
             [success |-> TRUE, message |-> assistant_content,
              raised |-> "none"])

\* GeminiChatbot.send_message(user, message_content) at tick t of day `day`;
\* key is the cache key of the message, api the outcome of the API if called
send_message(d, day, t, keep, key, api) ==
    LET d1 == [d EXCEPT !.messages = Append(@, ChatMessage("user", "question"))]
    IN  IF key \in d1.responses
        THEN ChatSuccess(d1, FALSE, FALSE, FALSE, "cached_answer")
        ELSE LET r == check_gemini_rate_limit(d1, day, t, keep)
             IN  CASE ~r.allowed ->
                         \* assistant_content holds the notice, but `response`
                         \* is unbound: reading it raises UnboundLocalError
                         ChatFailure(r.db, TRUE, FALSE, FALSE,
                                     "unbound_local_error")
                   [] api \in {"quota_error", "error"} ->
                         ChatFailure(r.db, TRUE, TRUE, TRUE, api)
                   [] api = "text" ->
                         ChatSuccess([r.db EXCEPT !.responses = @ \cup {key}],
                                     TRUE, TRUE, TRUE, "answer")
                   [] OTHER ->
                         ChatSuccess(r.db, TRUE, TRUE, TRUE, "apology")

\* the shape shared by the generators and the evaluator: the gate first, a
\* return before the API call when it refuses, then generate_content()
GateThenCall(d, day, t, keep, api, refused, no_text, quota, failed) ==
    LET r == check_gemini_rate_limit(d, day, t, keep) IN
    IF ~r.allowed
    THEN AiResult(r.db, TRUE, FALSE, FALSE, refused)
    ELSE AiResult(r.db, TRUE, TRUE, TRUE,
                  CASE api = "text" -> "generated"
                    [] api = "empty" -> no_text
                    [] api = "quota_error" -> quota
                    [] OTHER -> failed)

generate_lesson_content(d, day, t, keep, api) ==
    GateThenCall(d, day, t, keep, api, "none", "none", "none", "none")

generate_module_description(d, day, t, keep, api) ==
    GateThenCall(d, day, t, keep, api, "learn_fallback", "learn_fallback",
                 "master_fallback", "master_fallback")

enhance_existing_content(d, day, t, keep, api) ==
    GateThenCall(d, day, t, keep, api, "existing_content", "existing_content",
                 "existing_content", "existing_content")

generate_exercises_for_lesson(d, day, t, keep, api) ==
    GateThenCall(d, day, t, keep, api, "empty_list", "empty_list",
                 "empty_list", "empty_list")

evaluate_submission(d, day, t, keep, api) ==
    GateThenCall(d, day, t, keep, api, "limit_notice", "default_error",
                 "quota_exceeded", "default_error")

AiOperations == {"generate_lesson_content", "generate_module_description",
                 "enhance_existing_content", "generate_exercises_for_lesson",
                 "evaluate_submission"}

RunAiOperation(name, d, day, t, keep, api) ==
    CASE name = "generate_lesson_content" ->
            generate_lesson_content(d, day, t, keep, api)
      [] name = "generate_module_description" ->
            generate_module_description(d, day, t, keep, api)
      [] name = "enhance_existing_content" ->
            enhance_existing_content(d, day, t, keep, api)
      [] name = "generate_exercises_for_lesson" ->
            generate_exercises_for_lesson(d, day, t, keep, api)
      [] OTHER -> evaluate_submission(d, day, t, keep, api)

\* ---------------------------------------------- the AI callers over the days
InitAi ==
    /\ db = [cache |-> NoEntry, responses |-> {}, messages |-> <<>>]
    /\ today = 0
    /\ clock \in 0 .. TicksPerDay - 1
    /\ last = NoCall
    /\ hist = [consumed |-> 0]
    /\ req = NoReq

\* what an operation leaves in `last`: the counter read at its start and at
\* its end, and the stored messages it added
AiCall(op, r) ==
    [op |-> op, gate |-> r.gate, allowed |-> r.allowed,
     api_called |-> r.api_called, result |-> r.result,
     count_before |-> cache_get(db, today, 0, Instant(today, clock)),
     count_after |-> cache_get(r.db, today, 0, Instant(today, clock)),
     stored |-> SubSeq(r.db.messages, Len(db.messages) + 1,
                       Len(r.db.messages))]

\* a user sends a chat message
SendMessage ==
    /\ Len(db.messages) + 2 <= MaxMessages
    /\ \E key \in MessageKeys, api \in ApiOutcomes, keep \in BOOLEAN :
          LET r == send_message(db, today, clock, keep, key, api) IN
          /\ db' = r.db
          /\ last' = AiCall("send_message", r)
    /\ UNCHANGED <<today, clock, hist, req>>

\* a generator or the evaluator is called
AiOperation ==
    /\ \E name \in AiOperations, api \in ApiOutcomes, keep \in BOOLEAN :
          LET r == RunAiOperation(name, db, today, clock, keep, api) IN
          /\ db' = r.db
          /\ last' = AiCall(name, r)
    /\ UNCHANGED <<today, clock, hist, req>>

NextAi == SendMessage \/ AiOperation \/ RateTick \/ RateMidnight

SpecAi == InitAi /\ [][NextAi]_vars

\* C22 as stated: when the gate refuses a chat request, send_message does not
\* fail: it stores and returns the rate-limit notice as the assistant's reply
\* and does not end in the generic error path.
C22_RefusedChatGetsNotice ==
    (last.op = "send_message" /\ last.gate /\ ~last.allowed) =>
        /\ last.result.success
        /\ last.result.message = "rate_limit_notice"
        /\ last.result.raised = "none"
        /\ last.stored = <<ChatMessage("user", "question"),
                           ChatMessage("assistant", "rate_limit_notice")>>

\* C30 as stated: the API is never called by an operation whose gate check
\* refused; every API call is preceded in the same operation by a
\* check_and_consume that returned allowed=true and incremented the counter.
C30_ApiCallBehindCountedGate ==
    (last.op \in AiOperations \cup {"send_message"} /\ last.api_called) =>
        /\ last.gate
        /\ last.allowed
        /\ last.count_after = last.count_before + 1


\* ------------------------------------------- the rate gate, two callers at once
\* a count read again at the moment of the write
CountSameRead(d, day, t, held) == cache_get(d, day, 0, Instant(day, t))

\* check_gemini_rate_limit() reads the counter and later writes it; between
\* the two another caller may run.  The count the decision and the write
\* use is the one read at the start of the call.
CountUsed(d, day, t, held) == held

\* the part of check_gemini_rate_limit() after cache.get: the comparison
\* with the ceiling and cache.set of the count read plus one
check_gemini_rate_limit_write(d, day, t, keep, held) ==
    LET current_count == CountUsed(d, day, t, held) IN
    IF current_count >= GEMINI_DAILY_LIMIT
    THEN [db |-> d, allowed |-> FALSE, remaining |-> 0]
    ELSE LET new_count == current_count + 1 IN
         [db |-> cache_set(d, day, new_count, seconds_until_midnight(t),
                           Instant(day, t), keep),
          allowed |-> TRUE,
          remaining |-> GEMINI_DAILY_LIMIT - new_count]

\* the date has seen n sequential calls, all allowed, the first at tick 0
AfterCalls(n) ==
    [cache |-> [present |-> TRUE, key |-> 0, value |-> n,
                expires |-> seconds_until_midnight(0) * TicksPerSecond]]

\* hist.allowed: the calls of the date that returned allowed=True
InitRateRace ==
    /\ \E n \in GEMINI_DAILY_LIMIT - NearCeiling .. GEMINI_DAILY_LIMIT :
          /\ db = AfterCalls(n)
          /\ hist = [allowed |-> n]
    /\ today = 0
    /\ clock = 0
    /\ last = NoCall
    /\ req = NoReq

\* a caller enters check_gemini_rate_limit(): cache.get
RateRead(s) ==
    /\ req[s].pc = "idle"
    /\ hist.allowed <= GEMINI_DAILY_LIMIT + 1
    /\ LET current_count == cache_get(db, today, 0, Instant(today, clock)) IN
       /\ req' = [req EXCEPT ![s] = [pc |-> "read", count |-> current_count]]
       /\ last' = [op |-> "rate_read", slot |-> s, read |-> current_count]
    /\ UNCHANGED <<db, today, clock, hist>>

\* the caller finishes check_gemini_rate_limit(): comparison and cache.set
RateWrite(s) ==
    /\ req[s].pc = "read"
    /\ \E keep \in BOOLEAN :
          LET r == check_gemini_rate_limit_write(db, today, clock, keep,
                                                 req[s].count) IN
          /\ db' = r.db
          /\ hist' = [allowed |-> hist.allowed + (IF r.allowed THEN 1 ELSE 0)]
          /\ last' = [op |-> "rate_write", slot |-> s, read |-> req[s].count,
                      allowed |-> r.allowed, remaining |-> r.remaining,
                      count_before |-> cache_get(db, today, 0, Instant(today, clock)),
                      count_after |-> cache_get(r.db, today, 0, Instant(today, clock))]
    /\ req' = [req EXCEPT ![s] = Idle]
    /\ UNCHANGED <<today, clock>>

NextRateRace == \E s \in Slots : RateRead(s) \/ RateWrite(s)

SpecRateRace == InitRateRace /\ [][NextRateRace]_vars

\* C23: the gate's read-then-write is not atomic.  A call that read a count
\* below the ceiling returns allowed=true and stores that count plus one,
\* whatever another call has stored since; so two calls that read the same
\* count are both allowed and the stored counter, which never exceeds the
\* ceiling, counts them once.
C23_ReadThenWriteNotAtomic ==
    /\ db.cache.present => db.cache.value <= GEMINI_DAILY_LIMIT
    /\ (last.op = "rate_write" /\ last.read < GEMINI_DAILY_LIMIT) =>
          /\ last.allowed
          /\ last.count_after = last.read + 1
    /\ (last.op = "rate_write" /\ last.read >= GEMINI_DAILY_LIMIT) =>
          /\ ~last.allowed
          /\ last.count_after = last.count_before
    /\ hist.allowed >= cache_get(db, today, 0, Instant(today, clock))

\* the second of two calls that both read 99 has been allowed: 101 calls of
\* the date were allowed and the counter stands at 100
C23_Witness ==
    /\ last.op = "rate_write"
    /\ last.read = GEMINI_DAILY_LIMIT - 1
    /\ last.count_before = GEMINI_DAILY_LIMIT
    /\ last.allowed
    /\ last.count_after = GEMINI_DAILY_LIMIT
    /\ hist.allowed > GEMINI_DAILY_LIMIT


\* --------------------------------------------- submissions side by side
\* an award applied to the stored row in place of the request's copy
AwardFresh(d, r) == LoadUser(d, r.user.id)

\* the instance the XP of a first correct submission is added to and saved
\* from: request.user, loaded when the request started
AwardInstance(d, r) == r.user

\* submit_code_view: was_already_solved = exercise.is_solved_by(request.user)
SubmitRead(s) ==
    /\ req[s].pc = "record"
    /\ LET r == req[s] IN
       /\ req' = [req EXCEPT ![s] =
                    [pc |-> "create", kind |-> r.kind, user |-> r.user,
                     exercise |-> r.exercise, correct |-> r.correct,
                     checked |-> r.checked, checked_db |-> r.checked_db,
                     todo |-> r.todo, earned_read |-> r.earned_read,
                     earned |-> r.earned, newly |-> r.newly,
                     streak_badges |-> r.streak_badges,
                     was_already_solved |->
                        is_solved_by(db, r.user.id, r.exercise)]]
       /\ last' = [op |-> "is_solved_by", user |-> r.user.id,
                   exercise |-> r.exercise]
    /\ UNCHANGED <<db, today, clock, hist>>

\* submit_code_view: the submission row, and for a correct submission of an
\* exercise read as unsolved the XP and the counter
SubmitRecord(s) ==
    /\ req[s].pc = "create"
    /\ LET r == req[s]
           uid == r.user.id
           d1 == CreateSubmission(db, uid, r.exercise, r.correct)
           u1 == add_xp_mem(AwardInstance(d1, r), EXERCISE_XP_REWARD)
           u2 == [u1 EXCEPT !.total_exercises_completed = @ + 1]
       IN  IF r.correct /\ ~r.was_already_solved
           THEN /\ db' = SaveUser(SaveUser(d1, u1), u2)
                /\ req' = [req EXCEPT ![s] =
                             [pc |-> StepAfter("xp"), kind |-> r.kind,
                              user |-> u2, exercise |-> r.exercise,
                              correct |-> r.correct, checked |-> r.checked,
                              checked_db |-> r.checked_db, todo |-> r.todo,
                              earned_read |-> r.earned_read,
                              earned |-> r.earned, newly |-> r.newly,
                              streak_badges |-> r.streak_badges]]
                /\ last' = [op |-> "submission", user |-> uid,
                            exercise |-> r.exercise, xp_awarded |-> TRUE,
                            solved_before |-> is_solved_by(db, uid, r.exercise)]
           ELSE /\ db' = d1
                /\ req' = [req EXCEPT ![s] = Idle]
                /\ last' = [op |-> "submission", user |-> uid,
                            exercise |-> r.exercise, xp_awarded |-> FALSE,
                            solved_before |-> is_solved_by(db, uid, r.exercise)]
    /\ UNCHANGED <<today, clock, hist>>

LessonRunning == \E s \in Slots : req[s].pc # "idle" /\ req[s].kind = "lesson"

\* a lesson is completed while no other request runs; submissions of the
\* user run side by side
NextSubmit ==
    \/ \E uid \in Requesters, l \in Lessons :
          AllIdle /\ BeginLesson(ViewSlot, uid, l)
    \/ CompleteLesson(ViewSlot)
    \/ \E s \in Slots :
          \/ \E uid \in Requesters, e \in Exercises, correct \in BOOLEAN :
                ~LessonRunning /\ BeginSubmit(s, uid, e, correct)
          \/ SubmitRead(s)
          \/ SubmitRecord(s)
          \/ TouchStreak(s)
          \/ CheckBadges(s)
          \/ UpdateChallenges(s)

SpecSubmit == InitView /\ [][NextSubmit]_vars

\* the XP a user's stored rows account for, every lesson, exercise, badge
\* and challenge counted once
RECURSIVE SumOver(_, _)
SumOver(S, f) ==
    IF S = {} THEN 0
    ELSE LET x == CHOOSE y \in S : TRUE IN f[x] + SumOver(S \ {x}, f)

AccountedXp(d, uid) ==
    SumOver({l \in Lessons : d.progress[uid][l] = "completed"},
            [l \in Lessons |-> LessonXpReward(l)])
    + EXERCISE_XP_REWARD * ExercisesSolvedCount(d, uid)
    + SumOver({b \in DOMAIN d.badges : UserBadgeRows(d, uid, b) # <<>>},
              [b \in DOMAIN d.badges |-> d.badges[b].xp_reward])
    + SumOver({c \in DOMAIN d.challenges :
                  \E k \in DOMAIN UserChallengeRows(d, uid, c) :
                      UserChallengeRows(d, uid, c)[k].completed},
              [c \in DOMAIN d.challenges |-> d.challenges[c].xp_reward])

\* C24: the XP of an exercise is awarded at most once per (user, exercise),
\* over any sequence of submissions and when two correct submissions of one
\* exercise are processed side by side: the stored xp holds the reward of a
\* solved exercise once and total_exercises_completed counts it once.
C24_ExerciseXpOnce ==
    \A uid \in Users :
        /\ db.users[uid].total_exercises_completed
              <= ExercisesSolvedCount(db, uid)
        /\ db.users[uid].xp <= AccountedXp(db, uid)
        /\ (AllIdle /\ ExercisesSolvedCount(db, uid) > 0) =>
              /\ db.users[uid].total_exercises_completed >= 1
              /\ db.users[uid].xp >= EXERCISE_XP_REWARD

\* the second of two correct submissions of one exercise has been awarded
\* after the first had stored its row: the counter stands at 1
C24_Witness ==
    /\ last.op = "submission"
    /\ last.xp_awarded
    /\ last.solved_before
    /\ db.users[last.user].total_exercises_completed = 1
    /\ ExercisesSolvedCount(db, last.user) = 1


\* C25 as stated: XP is conserved within a completion request: when it
\* finishes, the stored xp is the stored xp before it plus the lesson or
\* exercise reward plus the rewards of the badges awarded and the challenges
\* completed during it.  The requests run one after another from a store
\* with xp 0 and no rows, so when a request finishes the stored xp is the
\* sum of the rewards of the rows stored for the user.
C25_XpConservedInRequest ==
    (last.op = "update_challenge" /\ AllIdle) =>
        db.users[last.user].xp = AccountedXp(db, last.user)


\* C26 as stated: every badge newly awarded while a completion request is
\* processed is reported by that request, the badges awarded by the badge
\* check of the streak touch included: they are among the badges the
\* handler's own check returns, which is what the response lists.
C26_AwardedBadgesReported ==
    (last.op = "check_badges" /\ req[ViewSlot].pc = StepAfter("badges")) =>
        Range(req[ViewSlot].streak_badges) \subseteq Range(last.calls[1].ret)


\* ------------------------------------------ friend requests side by side
\* send_friend_request: the existence lookup, Friendship.objects.filter(
\* Q(user=from, friend=to) | Q(user=to, friend=from)).first(); the instance
\* it returns keeps the status it was read with
SendLookup(s, from_user, to_user) ==
    /\ req[s].pc = "idle"
    /\ from_user # to_user
    /\ LET existing == First(PairRows(db, from_user, to_user)) IN
       req' = [req EXCEPT ![s] =
                [pc |-> "send", from_user |-> from_user, to_user |-> to_user,
                 existing |-> existing,
                 status |-> IF existing = 0 THEN "none"
                            ELSE db.friendships[existing].status]]
    /\ last' = [op |-> "send_lookup", user |-> from_user, other |-> to_user]
    /\ UNCHANGED <<db, today, clock, hist>>

\* send_friend_request after the lookup: the refusals, the resend of a
\* rejected row, or Friendship.objects.create
SendCreate(s) ==
    /\ req[s].pc = "send"
    /\ LET r == req[s]
           ins == InsertFriendship(db, Friendship(r.from_user, r.to_user,
                                                  "pending"))
           out == CASE r.status = "accepted" ->
                          Outcome(db, Failure("You are already friends"))
                    [] r.status = "pending" ->
                          Outcome(db, Failure("Friend request already pending"))
                    [] r.status = "rejected" ->
                          Outcome(ResendRejected(db, r.existing),
                                  Success("Friend request sent"))
                    [] OTHER ->
                          IF ins.ok
                          THEN Outcome(ins.db, Success("Friend request sent"))
                          ELSE [db |-> db, result |-> Failure("IntegrityError"),
                                raised |-> TRUE]
       IN  /\ db' = out.db
           /\ last' = SocialCall("send_request", r.from_user, r.to_user, out)
    /\ req' = [req EXCEPT ![s] = Idle]
    /\ UNCHANGED <<today, clock, hist>>

\* requests are sent side by side; answers and removals run alone
NextSocialRace ==
    \/ \E s \in Slots, uid \in Users, other \in Users : SendLookup(s, uid, other)
    \/ \E s \in Slots : SendCreate(s)
    \/ \E uid \in Users, other \in Users :
          AllIdle /\ (\/ AcceptFriendRequest(uid, other)
                      \/ RejectFriendRequest(uid, other)
                      \/ RemoveFriend(uid, other))

SpecSocialRace == InitSocial /\ [][NextSocialRace]_vars

\* C27 as stated: for any two users at most one Friendship row exists for the
\* unordered pair in every reachable state, also when send_request(A, B) and
\* send_request(B, A) run side by side: the two cannot both succeed.
C27_OneRowPerPair ==
    \A a \in Users, b \in Users : Cardinality(PairRows(db, a, b)) <= 1


\* the user has advanced challenge c: a UserChallenge row with progress
Advanced(d, uid, c) ==
    \E k \in DOMAIN UserChallengeRows(d, uid, c) :
        \/ UserChallengeRows(d, uid, c)[k].progress > 0
        \/ UserChallengeRows(d, uid, c)[k].completed

HandlerKinds == {"lesson", "exercise"}

\* C28 as stated: every generated challenge can be completed: its metric is
\* one some completion handler reports to update_challenge; a request that
\* earned XP has advanced the active xp_earned challenges when it ends, and
\* every code submission, also one that is not a first correct one, has
\* advanced the active code_submissions challenges.
C28_EveryMetricAdvances ==
    /\ \A c \in DOMAIN db.challenges :
          \E kind \in HandlerKinds :
              db.challenges[c].target_metric \in Range(HandlerMetrics(kind))
    /\ last.op = "update_challenge" =>
          \A c \in Range(ActiveChallenges(db, "xp_earned", today)) :
              Advanced(db, last.user, c)
    /\ (last.op = "submission" /\ ~last.xp_awarded) =>
          \A c \in Range(ActiveChallenges(db, "code_submissions", today)) :
              Advanced(db, last.user, c)


\* ------------------------------------------------ generation side by side
\* every process that starts the scheduler runs generate_challenges_job at
\* 00:00.  reset_and_generate_*_challenges up to its existence check: the
\* expired challenges of the type are deactivated, then
\* Challenge.objects.filter(type, start_date, is_active=True).exists()
GenCheck(s, type) ==
    /\ req[s].pc = "idle"
    /\ Len(db.challenges) + 2 * SampleSize(type) <= MaxChallengeRows
    /\ LET start == IF type = "daily" THEN today ELSE StartOfWeek(today)
           end == IF type = "daily" THEN today ELSE StartOfWeek(today) + 6
           chs == DeactivateExpired(db.challenges, type, today)
           existing == \E i \in DOMAIN chs :
                           /\ chs[i].challenge_type = type
                           /\ chs[i].start_date = start
                           /\ chs[i].is_active
       IN  /\ db' = [db EXCEPT !.challenges = chs]
           /\ req' = [req EXCEPT ![s] =
                        [pc |-> "generate", type |-> type, start |-> start,
                         end |-> end, existing |-> existing]]
           /\ last' = [op |-> "generate_check", type |-> type,
                       existing |-> existing]
    /\ UNCHANGED <<today, clock, hist>>

\* the rest of the call: nothing when the check found challenges, else
\* random.sample and one Challenge.objects.create per template drawn
GenCreate(s) ==
    /\ req[s].pc = "generate"
    /\ LET r == req[s]
           templates == IF r.type = "daily" THEN DailyTemplates
                        ELSE WeeklyTemplates
       IN  \E S \in Samples(templates, SampleSize(r.type)) :
              LET sel == Selected(templates, S, 1)
                  made == [i \in 1 .. Len(sel) |->
                              NewChallenge(sel[i], r.type, r.start, r.end)]
              IN  /\ db' = IF r.existing THEN db
                           ELSE [db EXCEPT !.challenges = @ \o made]
                  /\ last' = [op |-> "generate_create", type |-> r.type,
                              start |-> r.start,
                              created |-> IF r.existing THEN 0 ELSE Len(made)]
    /\ req' = [req EXCEPT ![s] = Idle]
    /\ UNCHANGED <<today, clock, hist>>

NextGenRace ==
    \/ \E s \in Slots, type \in {"daily", "weekly"} : GenCheck(s, type)
    \/ \E s \in Slots : GenCreate(s)
    \/ (AllIdle /\ GenNextDay)

SpecGenRace == InitGenerate /\ [][NextGenRace]_vars

\* the active challenges of a type that start on a day
ActiveOfPeriod(d, type, start) ==
    {i \in DOMAIN d.challenges :
        /\ d.challenges[i].challenge_type = type
        /\ d.challenges[i].start_date = start
        /\ d.challenges[i].is_active}

\* C29 as stated: generation stays duplicate-free when invoked redundantly
\* at the same time: also after two calls for one period interleaved their
\* existence check and their creates, the period has exactly 3 active daily
\* (2 active weekly) challenges.
C29_NoDuplicatesWhenInterleaved ==
    (last.op = "generate_create" /\ AllIdle) =>
        Cardinality(ActiveOfPeriod(db, last.type, last.start))
            = SampleSize(last.type)

====
